---- MODULE Spec2Model ----
(***************************************************************************)
(* dep-optimizer: the registry client (NpmClient), the persisted cache of  *)
(* dynamic groups (DynamicGroupsCache) and the functional-duplicate        *)
(* pipeline, as state machines.                                            *)
(*                                                                         *)
(* JavaScript runs every callback to completion: an action is one such     *)
(* run (the synchronous prefix of an async call, the continuation after    *)
(* an await, an I/O completion with the continuation it triggers).         *)
(***************************************************************************)
EXTENDS Integers, Sequences, FiniteSets, TLC

(***************************************************************************)
(* Bounds of the model.                                                    *)
(***************************************************************************)
\* fetchPackageMetadata calls made by independent callers (SpecSlots)
NCalls == 7
\* fetchPackageMetadata calls in the cache/TTL specification (SpecTTL)
NTTLCalls == 2
\* clock advances in a behaviour
MaxTicks == 2
\* longest name list handed to fetchPackageMetadataBatch
MaxBatchLen == 11
\* The packages of an inventory.
MaxInventory == 4
\* The packages of an inventory whose package.json files hold descriptions.
MaxSimilar == 3

(***************************************************************************)
(* Program constants.                                                      *)
(***************************************************************************)
maxConcurrentRequests == 5
cacheTTL == 7 * 24 * 60 * 60 * 1000
batchSize == 10

(***************************************************************************)
(* Values.                                                                 *)
(***************************************************************************)
Null == [tag |-> "null"]
Absent == [tag |-> "absent"]

\* Package names as callers give them, and String.prototype.toLowerCase on them.
Names == {"a", "A", "b", "B", "moment", "dayjs"}

toLowerCase(n) ==
    CASE n = "A" -> "a"
      [] n = "B" -> "b"
      [] n = "Moment" -> "moment"
      [] OTHER -> n

LowerNames == {toLowerCase(n) : n \in Names}

\* The ways one registry request ends (npm-client lines 58-92), and a fault
\* before the request is issued (encodeURIComponent / new URL throwing).
Outcomes == {"ok", "falsy", "notfound", "non2xx", "parse", "network", "timeout"}

\* Registry documents for a requested name: the registry's name of the
\* package, its version and the optional dist-tags.latest (0: absent).
Responses(n) ==
    {[name |-> toLowerCase(n), version |-> 1, latest |-> l] : l \in {0, 2}}

\* convertToMetadata (lines 144-155): dist-tags.latest is preferred.
convertToMetadata(data) ==
    [tag |-> "meta", name |-> data.name,
     version |-> IF data.latest # 0 THEN data.latest ELSE data.version]

MaxCallId == IF NCalls > MaxBatchLen THEN NCalls ELSE MaxBatchLen
CallIds == 1..MaxCallId

VARIABLES
    now,             \* Date.now()
    ticks,           \* clock advances so far
    cache,           \* NpmClient.cache: lowercase name -> entry
    requestQueue,    \* NpmClient.requestQueue: the waiting calls' resolvers
    activeRequests,  \* NpmClient.activeRequests
    pc,              \* where each fetchPackageMetadata call stands
    callName,        \* its packageName argument
    lastRet,         \* the latest return of a call: what its caller received
    fetched,         \* history: per lowercase name, the latest successful fetch
                     \* since the cache was last cleared
    batchNames,      \* fetchPackageMetadataBatch: packageNames
    batchPc,         \* idle | starting | waiting | done
    batchI,          \* the loop variable i (1-based start of the chunk)
    batchCursor,     \* next element of the chunk whose fetch is to be started
    batchResults,    \* the chunk's promises: what each settled with
    metadataMap,     \* the batch's result map: lowercase name -> metadata
    resolvedKeys,    \* history: lowercase names of the batch's fetches that
                     \* resolved to metadata
    cacheFile,       \* DynamicGroupsCache: the file dynamic-groups-cache.json
    got,             \* the latest getCachedGroups call: its argument and result
    lastPut,         \* history: the latest cacheGroups call whose record has
                     \* not been removed or damaged since
    lastClear,       \* history: the latest clearCache or clearExpiredCache call
                     \* since the file was last written or damaged, and
                     \* whether it removed the file
    anPc,            \* where the analyze or generateGroups call stands
    packages,        \* its inventory: the packages' names
    manifests,       \* what each package's package.json holds
    options,         \* useDynamic, useNpmRegistry, useCache, and whether the
                     \* generator was constructed with a client
    analyzeMetadata, \* analyze: metadataMap
    allMetadata,     \* generateGroups: localMetadata, alias allMetadata
    genCaller,       \* who awaits generateGroups: api | allGroups | loop
    loopK,           \* analyze: the package the loop of line 91 is at
    detectedDuplicates, \* analyze: detectedDuplicates
    result,          \* what the call returned
    fetchLog         \* history: a batch fetch was made, one resolved a name

clientVars == <<cache, requestQueue, activeRequests, pc, callName, lastRet, fetched>>
batchVars == <<batchNames, batchPc, batchI, batchCursor, batchResults, metadataMap, resolvedKeys>>
clockVars == <<now, ticks>>
groupCacheVars == <<cacheFile, got, lastPut, lastClear>>
analyzeVars == <<anPc, packages, manifests, options, analyzeMetadata, allMetadata,
                 genCaller, loopK, detectedDuplicates, result, fetchLog>>
vars == <<clockVars, clientVars, batchVars, groupCacheVars, analyzeVars>>

(***************************************************************************)
(* NpmClient                                                               *)
(***************************************************************************)
\* Mutant: the entry is taken to expire one millisecond early.
CacheHitExpiresEarly(entry, t) ==
    entry.tag = "entry" /\ t - entry.timestamp < cacheTTL - 1

\* fetchPackageMetadata's cache check (lines 45-46).
CacheHit(entry, t) ==
    entry.tag = "entry" /\ t - entry.timestamp < cacheTTL

\* Mutant: the comparison is off by one.
SlotFreeOffByOne(active) == active <= maxConcurrentRequests

\* The test of waitForSlot and of processQueue: a slot is free.
SlotFree(active) == active < maxConcurrentRequests

\* Mutant: the newest waiter is served (pop instead of shift).
processQueueLIFO(queue, active) ==
    IF Len(queue) > 0 /\ SlotFree(active)
    THEN [queue |-> SubSeq(queue, 1, Len(queue) - 1), active |-> active + 1,
          granted |-> {queue[Len(queue)]}]
    ELSE [queue |-> queue, active |-> active, granted |-> {}]

\* processQueue (lines 208-216): the new queue and counter, and the call
\* whose waitForSlot promise was resolved (if any).
processQueue(queue, active) ==
    IF Len(queue) > 0 /\ SlotFree(active)
    THEN [queue |-> Tail(queue), active |-> active + 1, granted |-> {Head(queue)}]
    ELSE [queue |-> queue, active |-> active, granted |-> {}]

\* Mutant: the slot is not given back.
FinallyNoRelease(queue, active) == processQueue(queue, active)

\* Mutant: the finally block gives the slot back and wakes no waiter.
FinallyNoHandOff(queue, active) ==
    [queue |-> queue, active |-> active - 1, granted |-> {}]

\* The finally block of fetchPackageMetadata (lines 109-112).
Finally(queue, active) == processQueue(queue, active - 1)

\* What the request's promise and the code after it make of an outcome
\* (lines 58-108): a 2xx response with a parsed truthy document is converted;
\* a 404 and a falsy document resolve to null; every rejection (non-2xx, parse
\* error, network error, timeout) and every throw is caught and gives null.
ResultOf(outcome, data) ==
    IF outcome = "ok" THEN convertToMetadata(data) ELSE Null

\* The cache after the call's continuation (lines 99-103): only metadata is
\* stored, under the lowercase name, stamped with the current time.
CacheAfter(c, n, r, t) ==
    IF r.tag = "meta"
    THEN [c EXCEPT ![toLowerCase(n)] = [tag |-> "entry", data |-> r, timestamp |-> t]]
    ELSE c

\* The values a request for n can make its call return, over every outcome
\* and every document of docs.
Returns(outs, docs) == {ResultOf(o, d) : o \in outs, d \in docs}

\* No synchronous section of the batch is running.
Quiet == batchPc # "starting"

\* The call belongs to the fetchPackageMetadataBatch in progress, whose
\* Promise.allSettled holds what it settles with (lines 125-129).
InBatch(id) == batchPc \in {"starting", "waiting"} /\ id \in 1..Len(batchNames)

\* A call returns r: to the batch's promise of that element, or to the
\* independent caller that made it.
Return(id, n, r, viaRequest) ==
    IF InBatch(id)
    THEN /\ batchResults' = [batchResults EXCEPT ![id] = r]
         /\ resolvedKeys' = IF r.tag = "meta"
                            THEN resolvedKeys \cup {toLowerCase(n)}
                            ELSE resolvedKeys
         /\ lastRet' = lastRet
    ELSE /\ lastRet' = [name |-> n, value |-> r, issued |-> viaRequest]
         /\ UNCHANGED <<batchResults, resolvedKeys>>

\* The synchronous prefix of fetchPackageMetadata(n) as call id: the cache
\* check, then waitForSlot up to its return or its push (lines 43-52, 194-203).
StartCall(id, n) ==
    /\ pc[id] = "idle"
    /\ callName' = [callName EXCEPT ![id] = n]
    /\ IF CacheHit(cache[toLowerCase(n)], now)
       THEN /\ pc' = [pc EXCEPT ![id] = "done"]
            /\ Return(id, n, cache[toLowerCase(n)].data, FALSE)
            /\ UNCHANGED <<requestQueue, activeRequests>>
       ELSE /\ UNCHANGED <<lastRet, batchResults, resolvedKeys>>
            /\ IF SlotFree(activeRequests)
               THEN /\ activeRequests' = activeRequests + 1
                    /\ pc' = [pc EXCEPT ![id] = "slot"]
                    /\ requestQueue' = requestQueue
               ELSE /\ requestQueue' = Append(requestQueue, id)
                    /\ pc' = [pc EXCEPT ![id] = "queued"]
                    /\ activeRequests' = activeRequests
    /\ UNCHANGED <<cache, fetched>>

\* A caller calls fetchPackageMetadata(n); calls are numbered as they arrive.
Call(id, n) ==
    /\ batchPc = "idle"
    /\ \A d \in 1..(id - 1) : pc[d] # "idle"
    /\ StartCall(id, n)
    /\ UNCHANGED <<clockVars, batchNames, batchPc, batchI, batchCursor, metadataMap, groupCacheVars, analyzeVars>>

\* The continuation after `await this.waitForSlot()`: the request is issued
\* (lines 54-92).
IssueRequest(id) ==
    /\ Quiet
    /\ pc[id] = "slot"
    /\ pc' = [pc EXCEPT ![id] = "inflight"]
    /\ UNCHANGED <<cache, requestQueue, activeRequests, callName, lastRet, fetched>>
    /\ UNCHANGED <<clockVars, batchVars, groupCacheVars, analyzeVars>>

\* The slot holder's try block ends (return or throw) and its finally runs
\* in the same continuation: result, cache, release, hand-off.
Finish(id, r, viaRequest) ==
    LET f == Finally(requestQueue, activeRequests) IN
    /\ Return(id, callName[id], r, viaRequest)
    /\ cache' = CacheAfter(cache, callName[id], r, now)
    /\ fetched' = IF r.tag = "meta"
                  THEN [fetched EXCEPT ![toLowerCase(callName[id])] = [tag |-> "fetch", data |-> r, at |-> now]]
                  ELSE fetched
    /\ requestQueue' = f.queue
    /\ activeRequests' = f.active
    /\ pc' = [d \in CallIds |->
                IF d = id THEN "done"
                ELSE IF d \in f.granted THEN "slot"
                ELSE pc[d]]
    /\ callName' = callName
    /\ UNCHANGED <<clockVars, batchNames, batchPc, batchI, batchCursor, metadataMap, groupCacheVars, analyzeVars>>

\* No continuation of a resolved waitForSlot is pending. Continuations are
\* microtasks: they all run before the next I/O callback does.
NoMicrotask == \A d \in CallIds : pc[d] # "slot"

\* The request completes (an I/O callback): response, error or timeout.
Complete(id, r) ==
    /\ Quiet
    /\ NoMicrotask
    /\ pc[id] = "inflight"
    /\ Finish(id, r, TRUE)

\* encodeURIComponent or new URL throws before any request is made
\* (lines 54-55): the catch and the finally run at once.
UrlFault(id) ==
    /\ Quiet
    /\ pc[id] = "slot"
    /\ Finish(id, ResultOf("urlerror", Null), FALSE)

\* clearCache (lines 221-223).
ClearCache ==
    /\ Quiet
    /\ cache # [k \in LowerNames |-> Absent]
    /\ cache' = [k \in LowerNames |-> Absent]
    /\ fetched' = [k \in LowerNames |-> Absent]
    /\ UNCHANGED <<requestQueue, activeRequests, pc, callName, lastRet>>
    /\ UNCHANGED <<clockVars, batchVars, groupCacheVars, analyzeVars>>

\* clearExpiredCache (lines 228-235).
ClearExpiredCache ==
    /\ Quiet
    /\ cache' = [k \in LowerNames |->
                    IF cache[k].tag = "entry" /\ now - cache[k].timestamp >= cacheTTL
                    THEN Absent ELSE cache[k]]
    /\ cache' # cache
    /\ UNCHANGED <<requestQueue, activeRequests, pc, callName, lastRet, fetched>>
    /\ UNCHANGED <<clockVars, batchVars, groupCacheVars, analyzeVars>>

\* Time passes.
Tick(d) ==
    /\ ticks < MaxTicks
    /\ now' = now + d
    /\ ticks' = ticks + 1
    /\ UNCHANGED <<clientVars, batchVars, groupCacheVars, analyzeVars>>

InitClock == now = 0 /\ ticks = 0

InitClient ==
    /\ cache = [k \in LowerNames |-> Absent]
    /\ requestQueue = <<>>
    /\ activeRequests = 0
    /\ pc = [c \in CallIds |-> "idle"]
    /\ callName = [c \in CallIds |-> ""]
    /\ lastRet = Absent
    /\ fetched = [k \in LowerNames |-> Absent]

InitNoBatch ==
    /\ batchNames = <<>>
    /\ batchPc = "idle"
    /\ batchI = 1
    /\ batchCursor = 1
    /\ batchResults = [c \in CallIds |-> Absent]
    /\ metadataMap = [k \in LowerNames |-> Absent]
    /\ resolvedKeys = {}

InitNoGroupCache ==
    /\ cacheFile = Absent
    /\ got = Absent
    /\ lastPut = Absent
    /\ lastClear = "none"

NoOptions == [useDynamic |-> FALSE, useNpmRegistry |-> FALSE, useCache |-> FALSE,
              clientMade |-> FALSE]

InitNoAnalyze ==
    /\ anPc = "idle"
    /\ packages = <<>>
    /\ manifests = <<>>
    /\ options = NoOptions
    /\ analyzeMetadata = [k \in LowerNames |-> Absent]
    /\ allMetadata = [k \in LowerNames |-> Absent]
    /\ genCaller = "api"
    /\ loopK = 1
    /\ detectedDuplicates = <<>>
    /\ result = Absent
    /\ fetchLog = [made |-> FALSE, resolved |-> FALSE]

(***************************************************************************)
(* SpecSlots: independent callers, the slot counter and the wait queue.    *)
(***************************************************************************)
SlotCalls == 1..NCalls
SlotNames == {"a"}
SlotResponse == [name |-> "a", version |-> 1, latest |-> 0]

InitSlots == InitClock /\ InitClient /\ InitNoBatch /\ InitNoGroupCache /\ InitNoAnalyze

NextSlots ==
    \/ \E id \in SlotCalls, n \in SlotNames : Call(id, n)
    \/ \E id \in SlotCalls : IssueRequest(id)
    \/ \E id \in SlotCalls, r \in Returns(Outcomes, {SlotResponse}) : Complete(id, r)
    \/ \E id \in SlotCalls : UrlFault(id)
    \/ ClearCache

SpecSlots == InitSlots /\ [][NextSlots]_vars

(***************************************************************************)
(* SpecTTL: the in-memory cache, its keys and its time-to-live.            *)
(***************************************************************************)
TTLCalls == 1..NTTLCalls
TTLNames == {"a", "A", "b"}
TTLDeltas == {1, cacheTTL - 1}

InitTTL == InitClock /\ InitClient /\ InitNoBatch /\ InitNoGroupCache /\ InitNoAnalyze

NextTTL ==
    \/ \E id \in TTLCalls, n \in TTLNames : Call(id, n)
    \/ \E id \in TTLCalls : IssueRequest(id)
    \/ \E id \in TTLCalls :
          \E r \in Returns(Outcomes, Responses(callName[id])) : Complete(id, r)
    \/ \E id \in TTLCalls : UrlFault(id)
    \/ ClearCache
    \/ ClearExpiredCache
    \/ \E d \in TTLDeltas : Tick(d)

SpecTTL == InitTTL /\ [][NextTTL]_vars

(***************************************************************************)
(* Claims about the registry client.                                       *)
(***************************************************************************)
\* The calls that hold a slot: acquired, completion step not yet run.
Holders == {id \in CallIds : pc[id] \in {"slot", "inflight"}}
Queued == {id \in CallIds : pc[id] = "queued"}
InFlight == {id \in CallIds : pc[id] = "inflight"}

\* C1: under any interleaving of calls and completions, the requests that
\* hold a slot (the counter activeRequests, and the calls actually holding
\* one or in flight) never exceed the cap of 5.
C1_CapNeverExceeded ==
    /\ activeRequests <= maxConcurrentRequests
    /\ Cardinality(Holders) <= maxConcurrentRequests
    /\ Cardinality(InFlight) <= maxConcurrentRequests

\* A burst larger than the cap: every slot taken, requests in flight, two waiting.
C1_Witness ==
    /\ activeRequests = maxConcurrentRequests
    /\ Cardinality(InFlight) = maxConcurrentRequests
    /\ Len(requestQueue) = 2

\* C2: activeRequests is never negative and always equals the number of
\* calls that acquired a slot and have not run their completion step, whatever
\* the requests' outcomes; once every call has returned it is 0 and the
\* wait queue is empty.
C2_NoSlotLeak ==
    /\ activeRequests >= 0
    /\ activeRequests = Cardinality(Holders)
    /\ (\A id \in CallIds : pc[id] \in {"idle", "done"})
          => activeRequests = 0 /\ requestQueue = <<>>

\* Every call made and returned, the last one through a failed request, after
\* some had to wait.
C2_Witness ==
    /\ \A id \in SlotCalls : pc[id] = "done"
    /\ lastRet # Absent /\ lastRet.issued /\ lastRet.value = Null
    /\ activeRequests = 0

\* C3, the states: the waiting calls are exactly the queue's entries, in
\* arrival order, and a non-empty queue implies that every slot is taken.
C3_QueueState ==
    /\ {requestQueue[i] : i \in 1..Len(requestQueue)} = Queued
    /\ \A i, j \in 1..Len(requestQueue) : i < j => requestQueue[i] < requestQueue[j]
    /\ requestQueue # <<>> => activeRequests = maxConcurrentRequests

\* C3, the steps: a call that misses the cache while all 5 slots are taken is
\* appended to the queue; a waiting call gets its slot only as the head of the
\* queue, being the longest-waiting one, in the very step in which another
\* call completes and releases its slot.
C3_QueueStep ==
    /\ \A id \in CallIds :
          (pc[id] = "idle" /\ pc'[id] = "queued")
             => /\ activeRequests = maxConcurrentRequests
                /\ requestQueue' = Append(requestQueue, id)
                /\ activeRequests' = activeRequests
    /\ \A id \in CallIds :
          (pc[id] = "idle" /\ pc'[id] = "slot") => requestQueue = <<>>
    /\ \A id \in CallIds :
          (pc[id] = "queued" /\ pc'[id] # "queued")
             => /\ pc'[id] = "slot"
                /\ id = Head(requestQueue)
                /\ \A d \in Queued : id <= d
                /\ requestQueue' = Tail(requestQueue)
                /\ activeRequests' = activeRequests
                /\ \E d \in Holders : pc'[d] = "done"
    /\ \A d \in Holders :
          (pc'[d] = "done" /\ requestQueue # <<>>)
             => pc'[Head(requestQueue)] = "slot"

\* C3: excess requests wait in FIFO order and a completing fetch hands its
\* slot to the longest-waiting one in the step that releases it, so that a
\* non-empty queue implies activeRequests = 5.
C3_FifoHandOff == [](C3_QueueState) /\ [][C3_QueueStep]_vars

\* The first waiter has been handed a slot while a later one still waits.
C3_Witness ==
    /\ pc[maxConcurrentRequests + 1] = "slot"
    /\ requestQueue = <<maxConcurrentRequests + 2>>
    /\ activeRequests = maxConcurrentRequests

\* C4, a request that returns metadata: the metadata is in the cache under
\* the lowercase name, stamped now, in the step in which the call returns.
C4_Populate ==
    \A id \in CallIds :
        (pc[id] = "inflight" /\ pc'[id] = "done" /\ lastRet'.value.tag = "meta")
           => cache'[toLowerCase(callName[id])] =
                 [tag |-> "entry", data |-> lastRet'.value, timestamp |-> now]

\* C4, a later call: a call for a name that equals, ignoring case, the name
\* of a fetch that succeeded less than 7 days ago, the cache not cleared
\* since, returns that fetch's metadata at once, issues no request and
\* leaves activeRequests and the queue alone.
C4_Hit ==
    \A id \in CallIds :
        (/\ pc[id] = "idle" /\ pc'[id] # "idle"
         /\ fetched[toLowerCase(callName'[id])].tag = "fetch"
         /\ now - fetched[toLowerCase(callName'[id])].at < cacheTTL)
           => /\ pc'[id] = "done"
              /\ lastRet' = [name |-> callName'[id],
                             value |-> fetched[toLowerCase(callName'[id])].data,
                             issued |-> FALSE]
              /\ activeRequests' = activeRequests
              /\ requestQueue' = requestQueue

\* C4: a successful fetch is cached under the lowercase name before the call
\* returns, and a later call for the same name ignoring case, within 7 days
\* and with no cache clear in between, is served from the cache without a
\* request and without touching activeRequests or the queue.
C4_CachedWithinTTL == [][C4_Populate /\ C4_Hit]_vars

\* "a" was fetched, and a call for "A" one millisecond short of 7 days later
\* was served from the cache.
C4_Witness ==
    /\ callName[1] = "a" /\ callName[2] = "A" /\ pc[2] = "done"
    /\ lastRet # Absent /\ lastRet.name = "A" /\ ~lastRet.issued
    /\ lastRet.value.tag = "meta"
    /\ fetched["a"].tag = "fetch" /\ now - fetched["a"].at = cacheTTL - 1

(***************************************************************************)
(* fetchPackageMetadataBatch                                               *)
(***************************************************************************)
Min(a, b) == IF a < b THEN a ELSE b

\* The last element of the chunk that starts at i: slice(i, i + batchSize).
ChunkEnd(i, len) == Min(i + batchSize - 1, len)

\* Mutant: the loop over the results ends at the first one without metadata.
RECURSIVE CollectResultsStopAtFailure(_, _, _, _, _)
CollectResultsStopAtFailure(map, names, results, from, to) ==
    IF from > to \/ results[from].tag # "meta" THEN map
    ELSE CollectResultsStopAtFailure(
            [map EXCEPT ![toLowerCase(names[from])] = results[from]],
            names, results, from + 1, to)

\* The loop over the settled results (lines 131-135), elements from..to in
\* order: a fulfilled promise with metadata sets its lowercase name.
RECURSIVE CollectResults(_, _, _, _, _)
CollectResults(map, names, results, from, to) ==
    IF from > to THEN map
    ELSE CollectResults(
            IF results[from].tag = "meta"
            THEN [map EXCEPT ![toLowerCase(names[from])] = results[from]]
            ELSE map,
            names, results, from + 1, to)

\* fetchPackageMetadataBatch(batchNames) is called (lines 118-123): an empty
\* list returns the empty map, otherwise the first chunk is sliced.
BatchBegin ==
    /\ batchPc = "idle"
    /\ \A id \in CallIds : pc[id] = "idle"
    /\ batchI' = 1
    /\ batchCursor' = 1
    /\ batchPc' = IF Len(batchNames) = 0 THEN "done" ELSE "starting"
    /\ UNCHANGED <<batchNames, batchResults, metadataMap, resolvedKeys>>
    /\ UNCHANGED <<clockVars, clientVars, groupCacheVars, analyzeVars>>

\* batch.map(name => this.fetchPackageMetadata(name)...) (lines 125-127):
\* the next element's call runs its synchronous prefix; after the last one
\* the batch awaits Promise.allSettled.
BatchStartNext ==
    /\ batchPc = "starting"
    /\ StartCall(batchCursor, batchNames[batchCursor])
    /\ batchCursor' = batchCursor + 1
    /\ batchPc' = IF batchCursor = ChunkEnd(batchI, Len(batchNames))
                  THEN "waiting" ELSE "starting"
    /\ UNCHANGED <<batchNames, batchI, metadataMap>>
    /\ UNCHANGED <<clockVars, groupCacheVars, analyzeVars>>

\* Promise.allSettled resolves once every promise of the chunk has settled;
\* the results (a constant of the loop body, dropped with it) are collected
\* and the loop goes on to the next chunk or returns the map (lines 129-138).
BatchCollect ==
    LET last == ChunkEnd(batchI, Len(batchNames)) IN
    /\ batchPc = "waiting"
    /\ \A id \in batchI..last : pc[id] = "done"
    /\ metadataMap' = CollectResults(metadataMap, batchNames, batchResults, batchI, last)
    /\ batchI' = batchI + batchSize
    /\ batchCursor' = batchI + batchSize
    /\ batchPc' = IF batchI + batchSize <= Len(batchNames) THEN "starting" ELSE "done"
    /\ batchResults' = [c \in CallIds |-> Absent]
    /\ UNCHANGED <<batchNames, resolvedKeys>>
    /\ UNCHANGED <<clockVars, clientVars, groupCacheVars, analyzeVars>>

(***************************************************************************)
(* SpecBatch: one fetchPackageMetadataBatch call on a client.              *)
(***************************************************************************)
\* The name lists: the first len names of a repeating pattern, so that a
\* chunk holds repeated names and names that differ only in case.
BatchPattern == <<"a", "B", "b">>
BatchList(len) == [i \in 1..len |-> BatchPattern[((i - 1) % Len(BatchPattern)) + 1]]
\* The lengths tried: no name, one partial chunk, and a full chunk followed
\* by a partial one.
BatchLens == {0, 3, MaxBatchLen}
BatchResponse(n) == [name |-> toLowerCase(n), version |-> 1, latest |-> 0]

InitBatch ==
    /\ InitClock
    /\ InitClient
    /\ \E len \in BatchLens : batchNames = BatchList(len)
    /\ batchPc = "idle"
    /\ batchI = 1
    /\ batchCursor = 1
    /\ batchResults = [c \in CallIds |-> Absent]
    /\ metadataMap = [k \in LowerNames |-> Absent]
    /\ resolvedKeys = {}
    /\ InitNoGroupCache
    /\ InitNoAnalyze

NextBatch ==
    \/ BatchBegin
    \/ BatchStartNext
    \/ \E id \in CallIds : IssueRequest(id)
    \/ \E id \in CallIds :
          \E r \in Returns(Outcomes, {BatchResponse(callName[id])}) : Complete(id, r)
    \/ \E id \in CallIds : UrlFault(id)
    \/ BatchCollect

SpecBatch == InitBatch /\ [][NextBatch]_vars

(***************************************************************************)
(* SpecLive: independent fetchPackageMetadata calls, or one                *)
(* fetchPackageMetadataBatch call on more names than there are slots, on a *)
(* client whose continuations are run and whose requests all end.          *)
(***************************************************************************)
InitLive ==
    /\ InitClock
    /\ InitClient
    /\ batchNames = BatchList(NCalls)
    /\ batchPc = "idle"
    /\ batchI = 1
    /\ batchCursor = 1
    /\ batchResults = [c \in CallIds |-> Absent]
    /\ metadataMap = [k \in LowerNames |-> Absent]
    /\ resolvedKeys = {}
    /\ InitNoGroupCache
    /\ InitNoAnalyze

NextLive ==
    \/ \E id \in SlotCalls, n \in SlotNames : Call(id, n)
    \/ BatchBegin
    \/ BatchStartNext
    \/ \E id \in CallIds : IssueRequest(id)
    \/ \E id \in CallIds :
          \E r \in Returns(Outcomes, {BatchResponse(callName[id])}) : Complete(id, r)
    \/ \E id \in CallIds : UrlFault(id)
    \/ BatchCollect

\* What the program and the registry do of themselves: the event loop runs
\* a continuation that is due (the next call of a chunk, the code after an
\* await), and a request issued ends with a response, an error or its
\* 10-second timeout (npm-client lines 58-92). Callers owe no call.
Progress ==
    \/ BatchStartNext
    \/ \E id \in CallIds : IssueRequest(id)
    \/ \E id \in CallIds :
          \E r \in Returns(Outcomes, {BatchResponse(callName[id])}) : Complete(id, r)
    \/ BatchCollect

SpecLive == InitLive /\ [][NextLive]_vars

SpecLiveFair == SpecLive /\ WF_vars(Progress)

(***************************************************************************)
(* Claims about fetchPackageMetadataBatch.                                 *)
(***************************************************************************)
MapKeys(map) == {k \in LowerNames : map[k] # Absent}

\* C5, the chunks: the calls made so far are those of the chunks up to the
\* current one, every call of an earlier chunk has returned, and a chunk
\* begins at a multiple of 10.
C5_Chunks ==
    /\ (batchI - 1) % batchSize = 0
    /\ \A id \in 1..Len(batchNames) :
          /\ id < batchI => pc[id] = "done"
          /\ id >= batchI + batchSize => pc[id] = "idle"
    /\ Cardinality({id \in CallIds : pc[id] \notin {"idle", "done"}}) <= batchSize

\* C5, the map: it never holds a name whose fetches all failed, each entry is
\* the metadata of that name, and the map returned holds exactly the
\* lowercase names of the fetches that resolved to metadata.
C5_Map ==
    /\ MapKeys(metadataMap) \subseteq resolvedKeys
    /\ \A k \in MapKeys(metadataMap) :
          metadataMap[k].tag = "meta" /\ metadataMap[k].name = k
    /\ batchPc = "done" => MapKeys(metadataMap) = resolvedKeys

\* C5, isolation: whatever its siblings returned, a fetch in flight can
\* complete, and a chunk whose fetches have all returned is collected: the
\* batch is never stuck or rejected short of its return.
C5_Isolation ==
    /\ batchPc \in {"idle", "starting", "waiting", "done"}
    /\ (batchPc = "waiting" /\ NoMicrotask)
          => \/ \E id \in InFlight : ENABLED Complete(id, Null)
             \/ ENABLED BatchCollect

\* C5: fetchPackageMetadataBatch works through the names in chunks of 10,
\* a failed or 404 fetch costs only its own entry, and the map returned holds
\* exactly the lowercase names whose fetch resolved to metadata.
C5_BatchIsolation == C5_Chunks /\ C5_Map /\ C5_Isolation

\* A batch of two chunks has returned: "a" resolved, every fetch of "b" and
\* "B" failed.
C5_Witness ==
    /\ batchPc = "done"
    /\ Len(batchNames) > batchSize
    /\ MapKeys(metadataMap) = {"a"}
    /\ cache["b"] = Absent

(***************************************************************************)
(* DynamicGroupsCache                                                      *)
(*                                                                         *)
(* The file is the environment's: it is absent, unreadable (it exists and  *)
(* readFileSync throws), or holds a text. A write replaces it: a failing   *)
(* write is a fault of the file system, which the model leaves out.        *)
(***************************************************************************)
defaultTTL == 7 * 24 * 60 * 60 * 1000

Throw == [tag |-> "throw"]
Undefined == "<undefined>"

\* FunctionalDuplicateGroup values: description and recommended are optional.
GroupA == [category |-> "Date Libraries", description |-> "Similar date tools",
           packages |-> <<"a", "A">>, recommended |-> Undefined]
GroupB == [category |-> "Http Libraries", description |-> Undefined,
           packages |-> <<"b", "a">>, recommended |-> "b"]
GroupLists == {<<GroupA>>, <<GroupB, GroupA>>}

\* The packageNames arguments tried.
NameLists == {<<>>, <<"a">>, <<"a", "b">>, <<"B", "A">>}

\* The ttl arguments tried, in milliseconds; cacheGroups may be called without.
NoTTL == [given |-> FALSE]
TTLArgs == {NoTTL} \cup {[given |-> TRUE, value |-> v] : v \in {0, 1}}

Range(seq) == {seq[i] : i \in 1..Len(seq)}

\* The names of a list, lowercased (lines 47-48).
LowerSet(names) == {toLowerCase(n) : n \in Range(names)}

\* JSON.stringify of a group: a property whose value is undefined is left out.
GroupKeys == {"category", "description", "packages", "recommended"}
StringifyGroup(g) ==
    LET present == {k \in GroupKeys : g[k] # Undefined} IN
    [k \in present |-> g[k]]

\* Reading the properties of a parsed group: a missing one reads undefined.
ReadGroup(o) ==
    [k \in GroupKeys |-> IF k \in DOMAIN o THEN o[k] ELSE Undefined]

\* JSON.stringify(cacheEntry) (line 82): the text of the record.
Stringify(entry) ==
    [tag |-> "text",
     json |-> [tag |-> "record",
               groups |-> [i \in 1..Len(entry.groups) |-> StringifyGroup(entry.groups[i])],
               packageNames |-> entry.packageNames,
               timestamp |-> entry.timestamp,
               ttl |-> entry.ttl]]

\* Texts that are no record of the cache: not JSON at all (a truncated
\* write), the JSON null, the JSON {}.
Garbage == [tag |-> "text", json |-> [tag |-> "unparsable"]]
JsonNull == [tag |-> "text", json |-> [tag |-> "null"]]
JsonEmpty == [tag |-> "text", json |-> [tag |-> "empty"]]
Unreadable == [tag |-> "unreadable"]
Damaged == {Unreadable, Garbage, JsonNull, JsonEmpty}

\* JSON.parse (line 39): throws on a text that is not JSON.
Parse(text) == IF text.json.tag = "unparsable" THEN Throw ELSE text.json

\* The ttl stored by cacheGroups: `ttl || this.defaultTTL` (line 79), where
\* undefined and 0 are falsy.
StoredTTL(ttl) ==
    IF ttl.given /\ ttl.value # 0 THEN ttl.value ELSE defaultTTL

\* Mutant: some requested name is cached (some instead of every).
AllMatchSome(requested, cached) ==
    \E n \in requested : n \in cached

\* allMatch (line 52): every requested name is among the cached ones.
AllMatch(requested, cached) ==
    \A n \in requested : n \in cached

\* A list of groups, as a call returns it.
Groups(groups) == [tag |-> "groups", groups |-> groups]

\* The try block of getCachedGroups (lines 34-58): the value returned, or
\* Throw when a statement throws.
GetCachedGroupsTry(file, packageNames, t) ==
    IF file.tag = "absent" THEN Null
    ELSE IF file.tag = "unreadable" THEN Throw
    ELSE LET c == Parse(file) IN
         IF c = Throw THEN Throw
         \* null.timestamp throws a TypeError
         ELSE IF c.tag = "null" THEN Throw
         \* {}: NaN > undefined is false, then undefined.map throws
         ELSE IF c.tag = "empty" THEN Throw
         ELSE IF t - c.timestamp > c.ttl THEN Null
         ELSE LET cachedNames == LowerSet(c.packageNames)
                  requestedNames == LowerSet(packageNames)
              IN IF AllMatch(requestedNames, cachedNames)
                 THEN Groups([i \in 1..Len(c.groups) |-> ReadGroup(c.groups[i])])
                 ELSE Null

\* Mutant: the error is not caught.
getCachedGroupsNoCatch(file, packageNames, t) ==
    GetCachedGroupsTry(file, packageNames, t)

\* getCachedGroups (lines 32-63): null in the catch block.
getCachedGroups(file, packageNames, t) ==
    LET r == GetCachedGroupsTry(file, packageNames, t) IN
    IF r = Throw THEN Null ELSE r

\* Mutant: a record that is there is kept (written only when absent).
cacheGroupsKeepsRecord(file, packageNames, groups, ttl, t) ==
    IF file.tag = "text" /\ file.json.tag = "record" THEN file
    ELSE Stringify([groups |-> groups, packageNames |-> packageNames,
                    timestamp |-> t, ttl |-> StoredTTL(ttl)])

\* cacheGroups (lines 68-86): the file after the call.
cacheGroups(file, packageNames, groups, ttl, t) ==
    Stringify([groups |-> groups, packageNames |-> packageNames,
               timestamp |-> t, ttl |-> StoredTTL(ttl)])

\* What the file is, for the history.
FileKind(file) ==
    IF file.tag = "text" THEN file.json.tag ELSE file.tag

\* cache.getCachedGroups(packageNames) is called; got is the value returned
\* by the last such call since the file was last written, damaged or cleared.
Get(packageNames) ==
    /\ got' = [names |-> packageNames,
               value |-> getCachedGroups(cacheFile, packageNames, now)]
    /\ UNCHANGED <<cacheFile, lastPut, lastClear>>
    /\ UNCHANGED <<clockVars, clientVars, batchVars, analyzeVars>>

\* cache.cacheGroups(packageNames, groups, ttl) is called. lastPut is the
\* history of the call: its arguments, the time, the kind of file it wrote
\* over, the names of the put before it, and whether a get of the damaged
\* file it wrote over had returned none.
Put(packageNames, groups, ttl) ==
    /\ cacheFile' = cacheGroups(cacheFile, packageNames, groups, ttl, now)
    /\ lastPut' = [names |-> packageNames, groups |-> groups, ttl |-> ttl,
                   at |-> now,
                   over |-> IF cacheFile \in Damaged THEN "damaged" ELSE FileKind(cacheFile),
                   prev |-> IF lastPut = Absent THEN {} ELSE LowerSet(lastPut.names),
                   missed |-> /\ cacheFile \in Damaged
                              /\ got # Absent
                              /\ got.value = Null]
    /\ lastClear' = "none"
    /\ got' = Absent
    /\ UNCHANGED <<clockVars, clientVars, batchVars, analyzeVars>>

\* clearCache (lines 91-99): the file is unlinked if it exists.
ClearGroupCache ==
    /\ cacheFile # Absent
    /\ cacheFile' = Absent
    /\ lastPut' = Absent
    /\ lastClear' = "cleared"
    /\ got' = Absent
    /\ UNCHANGED <<clockVars, clientVars, batchVars, analyzeVars>>

\* The record of a file is past its ttl (line 113); Throw when reading it throws.
ExpiredTry(file, t) ==
    IF file.tag = "unreadable" THEN Throw
    ELSE LET c == Parse(file) IN
         IF c = Throw THEN Throw
         ELSE IF c.tag = "null" THEN Throw
         ELSE IF c.tag = "empty" THEN Null
         ELSE IF t - c.timestamp > c.ttl THEN [tag |-> "expired"] ELSE Null

\* Mutant: a record is removed as soon as its age reaches its ttl.
clearExpiredCacheAtTTL(file, t) ==
    IF file.tag = "absent" THEN file
    ELSE IF file.tag = "text" /\ file.json.tag = "record"
    THEN (IF t - file.json.timestamp >= file.json.ttl THEN Absent ELSE file)
    ELSE IF ExpiredTry(file, t) = Throw THEN Absent ELSE file

\* clearExpiredCache (lines 104-120): the file after the call. The catch
\* block clears a file that cannot be read or parsed.
clearExpiredCache(file, t) ==
    IF file.tag = "absent" THEN file
    ELSE IF ExpiredTry(file, t) \in {Throw, [tag |-> "expired"]} THEN Absent
    ELSE file

\* cache.clearExpiredCache() is called on a file that exists.
ClearExpiredGroupCache ==
    /\ cacheFile # Absent
    /\ cacheFile' = clearExpiredCache(cacheFile, now)
    /\ lastPut' = IF cacheFile' = cacheFile THEN lastPut ELSE Absent
    /\ lastClear' = IF cacheFile' = cacheFile THEN "kept" ELSE "removed"
    /\ got' = Absent
    /\ UNCHANGED <<clockVars, clientVars, batchVars, analyzeVars>>

\* The environment damages the file: a truncated or foreign text, or a file
\* that cannot be read.
Damage(file) ==
    /\ file \in Damaged
    /\ cacheFile # file
    /\ cacheFile' = file
    /\ lastPut' = Absent
    /\ lastClear' = "none"
    /\ got' = Absent
    /\ UNCHANGED <<clockVars, clientVars, batchVars, analyzeVars>>

(***************************************************************************)
(* SpecGroupCache: one DynamicGroupsCache and its file.                    *)
(***************************************************************************)
GroupCacheDeltas == {1, defaultTTL}

InitGroupCache ==
    /\ InitClock /\ InitClient /\ InitNoBatch /\ InitNoAnalyze
    /\ cacheFile = Absent
    /\ got = Absent
    /\ lastPut = Absent
    /\ lastClear = "none"

NextGroupCache ==
    \/ \E names \in NameLists : Get(names)
    \/ \E names \in NameLists, groups \in GroupLists, ttl \in TTLArgs :
          Put(names, groups, ttl)
    \/ ClearGroupCache
    \/ ClearExpiredGroupCache
    \/ \E file \in Damaged : Damage(file)
    \/ \E d \in GroupCacheDeltas : Tick(d)

SpecGroupCache == InitGroupCache /\ [][NextGroupCache]_vars

(***************************************************************************)
(* Claims on the group cache                                               *)
(***************************************************************************)
IsRecord(file) == file.tag = "text" /\ file.json.tag = "record"

\* The ttl a put was given: its argument, or 7 days when it gave none.
GivenTTL(ttl) == IF ttl.given THEN ttl.value ELSE 7 * 24 * 60 * 60 * 1000

\* C7: get(packageNames) returns none whenever the requested names, compared
\* case-insensitively, are not a subset of the names stored with the record,
\* even when a single requested name is missing; it returns the stored groups
\* only when every requested name is covered.
C7_SubsetCheck ==
    IsRecord(cacheFile) =>
        \A req \in NameLists :
            LET r == getCachedGroups(cacheFile, req, now)
                covered == LowerSet(req) \subseteq LowerSet(cacheFile.json.packageNames)
            IN /\ ~covered => r = Null
               /\ r # Null => covered /\ r = Groups(lastPut.groups)

\* A get of a live record, one of whose two requested names is not stored,
\* returned none.
C7_Witness ==
    /\ IsRecord(cacheFile)
    /\ now - cacheFile.json.timestamp <= cacheFile.json.ttl
    /\ got # Absent
    /\ got.value = Null
    /\ Cardinality(LowerSet(got.names)) = 2
    /\ Cardinality(LowerSet(got.names) \ LowerSet(cacheFile.json.packageNames)) = 1

\* C8: expiry follows the ttl given to put: after put(packageNames, groups,
\* ttl), get returns none at any time with now - timestamp > ttl, for every
\* ttl passed; a put without ttl gives the record a ttl of 7 days.
C8_ExpiryFollowsGivenTTL ==
    lastPut # Absent =>
        /\ \A req \in NameLists :
              now - lastPut.at > GivenTTL(lastPut.ttl)
                  => getCachedGroups(cacheFile, req, now) = Null
        /\ ~lastPut.ttl.given => cacheFile.json.ttl = 7 * 24 * 60 * 60 * 1000

PastTTL(file, t) == t - file.json.timestamp > file.json.ttl

\* C11, the states: clearExpiredCache on a record removes it exactly when it
\* is past its ttl, and otherwise leaves the file, and the answer to every
\* request, as they are.
C11_ExpiredOnly ==
    IsRecord(cacheFile) =>
        /\ PastTTL(cacheFile, now) => clearExpiredCache(cacheFile, now) = Absent
        /\ ~PastTTL(cacheFile, now) =>
              /\ clearExpiredCache(cacheFile, now) = cacheFile
              /\ \A req \in NameLists :
                    getCachedGroups(clearExpiredCache(cacheFile, now), req, now)
                       = getCachedGroups(cacheFile, req, now)

\* C11, the steps: clearCache leaves no file, so that every request gets
\* none; a clearExpiredCache step on a record removes it only past its ttl,
\* and one that keeps the record changes neither the file nor any answer.
C11_ClearStep ==
    /\ ClearGroupCache =>
          /\ cacheFile' = Absent
          /\ \A req \in NameLists : getCachedGroups(cacheFile', req, now') = Null
    /\ (ClearExpiredGroupCache /\ IsRecord(cacheFile)) =>
          /\ cacheFile' # cacheFile => PastTTL(cacheFile, now) /\ cacheFile' = Absent
          /\ PastTTL(cacheFile, now) => cacheFile' = Absent
          /\ cacheFile' = cacheFile =>
                \A req \in NameLists :
                    getCachedGroups(cacheFile', req, now') = getCachedGroups(cacheFile, req, now)

SortDescendingUnstable(seq, keys) ==
    LET pos(i) == 1 + Cardinality({j \in 1..Len(seq) :
                         keys[j] > keys[i] \/ (keys[j] = keys[i] /\ j > i)})
    IN [k \in 1..Len(seq) |-> seq[CHOOSE i \in 1..Len(seq) : pos(i) = k]]

\* Array.prototype.sort with the comparator (a, b) => key(b) - key(a), keys
\* being the elements' keys: by key descending, elements of equal keys in
\* the order they had.
SortDescending(seq, keys) ==
    LET pos(i) == 1 + Cardinality({j \in 1..Len(seq) :
                         keys[j] > keys[i] \/ (keys[j] = keys[i] /\ j < i)})
    IN [k \in 1..Len(seq) |-> seq[CHOOSE i \in 1..Len(seq) : pos(i) = k]]

\* The keys of a Map in the order they were first set.
RECURSIVE Distinct(_)
Distinct(seq) ==
    IF seq = <<>> THEN <<>>
    ELSE LET Other(x) == x # Head(seq)
         IN <<Head(seq)>> \o Distinct(SelectSeq(Tail(seq), Other))

RECURSIVE SumSeq(_)
SumSeq(seq) == IF seq = <<>> THEN 0 ELSE Head(seq) + SumSeq(Tail(seq))

\* Math.max(...seq) of a sequence that is not empty.
MaxSeq(seq) == CHOOSE m \in Range(seq) : \A x \in Range(seq) : x <= m

\* packages.map(p => p.name)
PackageNames(pkgs) == [i \in 1..Len(pkgs) |-> pkgs[i].name]

(***************************************************************************)
(* SimilarityAnalyzer (similarity-analyzer.ts). A text is the sequence of  *)
(* its characters; a score is a fraction num/den in lowest terms.          *)
(***************************************************************************)
\* The stop words of extractWords (lines 123-134).
stopWords ==
    { <<"a">>, <<"a", "n">>, <<"a", "n", "d">>,
      <<"a", "r", "e">>, <<"a", "s">>, <<"a", "t">>,
      <<"b", "e">>, <<"b", "y">>, <<"f", "o", "r">>,
      <<"f", "r", "o", "m">>, <<"h", "a", "s">>, <<"h", "e">>,
      <<"i", "n">>, <<"i", "s">>, <<"i", "t">>,
      <<"i", "t", "s">>, <<"o", "f">>, <<"o", "n">>,
      <<"t", "h", "a", "t">>, <<"t", "h", "e">>, <<"t", "o">>,
      <<"w", "a", "s">>, <<"w", "i", "l", "l">>, <<"w", "i", "t", "h">>,
      <<"t", "h", "i", "s">>, <<"b", "u", "t">>, <<"t", "h", "e", "y">>,
      <<"h", "a", "v", "e">>, <<"h", "a", "d">>, <<"w", "h", "a", "t">>,
      <<"s", "a", "i", "d">>, <<"e", "a", "c", "h">>, <<"w", "h", "i", "c", "h">>,
      <<"t", "h", "e", "i", "r">>, <<"t", "i", "m", "e">>, <<"i", "f">>,
      <<"u", "p">>, <<"o", "u", "t">>, <<"m", "a", "n", "y">>,
      <<"t", "h", "e", "n">>, <<"t", "h", "e", "m">>, <<"t", "h", "e", "s", "e">>,
      <<"s", "o">>, <<"s", "o", "m", "e">>, <<"h", "e", "r">>,
      <<"w", "o", "u", "l", "d">>, <<"m", "a", "k", "e">>, <<"l", "i", "k", "e">>,
      <<"i", "n", "t", "o">>, <<"h", "i", "m">>, <<"t", "w", "o">>,
      <<"m", "o", "r", "e">>, <<"v", "e", "r", "y">>, <<"a", "f", "t", "e", "r">>,
      <<"w", "o", "r", "d", "s">>, <<"l", "o", "n", "g">>, <<"t", "h", "a", "n">>,
      <<"f", "i", "r", "s", "t">>, <<"b", "e", "e", "n">>, <<"c", "a", "l", "l">>,
      <<"w", "h", "o">>, <<"o", "i", "l">>, <<"s", "i", "t">>,
      <<"n", "o", "w">>, <<"f", "i", "n", "d">>, <<"d", "o", "w", "n">>,
      <<"d", "a", "y">>, <<"d", "i", "d">>, <<"g", "e", "t">>,
      <<"c", "o", "m", "e">>, <<"m", "a", "d", "e">>, <<"m", "a", "y">>,
      <<"p", "a", "r", "t">>, <<"l", "i", "b", "r", "a", "r", "y">>, <<"l", "i", "b", "r", "a", "r", "i", "e", "s">>,
      <<"p", "a", "c", "k", "a", "g", "e">>, <<"p", "a", "c", "k", "a", "g", "e", "s">>, <<"n", "p", "m">>,
      <<"n", "o", "d", "e">>, <<"j", "s">>, <<"j", "a", "v", "a", "s", "c", "r", "i", "p", "t">>,
      <<"t", "y", "p", "e", "s", "c", "r", "i", "p", "t">>, <<"t", "s">> }

\* categoryPatterns (lines 217-230): the alternatives of each pattern, and
\* its category.
categoryPatterns ==
    << [pattern |-> {<<"d", "a", "t", "e">>,
                     <<"t", "i", "m", "e">>,
                     <<"c", "a", "l", "e", "n", "d", "a", "r">>,
                     <<"m", "o", "m", "e", "n", "t">>,
                     <<"t", "i", "m", "e", "s", "t", "a", "m", "p">>},
        category |-> "Date/Time Manipulation"],
       [pattern |-> {<<"h", "t", "t", "p">>,
                     <<"r", "e", "q", "u", "e", "s", "t">>,
                     <<"f", "e", "t", "c", "h">>,
                     <<"a", "j", "a", "x">>,
                     <<"a", "p", "i">>},
        category |-> "HTTP Clients"],
       [pattern |-> {<<"u", "t", "i", "l", "i", "t", "y">>,
                     <<"u", "t", "i", "l">>,
                     <<"h", "e", "l", "p", "e", "r">>,
                     <<"t", "o", "o", "l">>},
        category |-> "Utility Functions"],
       [pattern |-> {<<"t", "e", "s", "t">>,
                     <<"t", "e", "s", "t", "i", "n", "g">>,
                     <<"s", "p", "e", "c">>,
                     <<"a", "s", "s", "e", "r", "t">>},
        category |-> "Testing"],
       [pattern |-> {<<"c", "s", "s">>,
                     <<"s", "t", "y", "l", "e">>,
                     <<"s", "t", "y", "l", "e", "d">>},
        category |-> "CSS-in-JS"],
       [pattern |-> {<<"s", "t", "a", "t", "e">>,
                     <<"s", "t", "o", "r", "e">>,
                     <<"r", "e", "d", "u", "x">>,
                     <<"m", "o", "b", "x">>},
        category |-> "State Management"],
       [pattern |-> {<<"f", "o", "r", "m">>,
                     <<"v", "a", "l", "i", "d", "a", "t", "i", "o", "n">>,
                     <<"v", "a", "l", "i", "d", "a", "t", "e">>,
                     <<"s", "c", "h", "e", "m", "a">>},
        category |-> "Form Validation"],
       [pattern |-> {<<"t", "e", "m", "p", "l", "a", "t", "e">>,
                     <<"t", "e", "m", "p", "l", "a", "t", "i", "n", "g">>,
                     <<"r", "e", "n", "d", "e", "r">>},
        category |-> "Template Engines"],
       [pattern |-> {<<"l", "o", "g">>,
                     <<"l", "o", "g", "g", "i", "n", "g">>,
                     <<"l", "o", "g", "g", "e", "r">>},
        category |-> "Logging"],
       [pattern |-> {<<"c", "o", "m", "m", "a", "n", "d">>,
                     <<"c", "l", "i">>,
                     <<"a", "r", "g", "v">>,
                     <<"a", "r", "g", "u", "m", "e", "n", "t">>},
        category |-> "Command Line Parsing"],
       [pattern |-> {<<"e", "n", "v">>,
                     <<"e", "n", "v", "i", "r", "o", "n", "m", "e", "n", "t">>,
                     <<"c", "o", "n", "f", "i", "g">>},
        category |-> "Environment Variables"],
       [pattern |-> {<<"u", "u", "i", "d">>,
                     <<"i", "d">>,
                     <<"u", "n", "i", "q", "u", "e">>},
        category |-> "UUID Generation"] >>

\* String.prototype.toUpperCase on a character.
toUpperCaseChar(c) ==
    CASE c = "a" -> "A"
      [] c = "b" -> "B"
      [] c = "c" -> "C"
      [] c = "d" -> "D"
      [] c = "e" -> "E"
      [] c = "f" -> "F"
      [] c = "g" -> "G"
      [] c = "h" -> "H"
      [] c = "i" -> "I"
      [] c = "j" -> "J"
      [] c = "k" -> "K"
      [] c = "l" -> "L"
      [] c = "m" -> "M"
      [] c = "n" -> "N"
      [] c = "o" -> "O"
      [] c = "p" -> "P"
      [] c = "q" -> "Q"
      [] c = "r" -> "R"
      [] c = "s" -> "S"
      [] c = "t" -> "T"
      [] c = "u" -> "U"
      [] c = "v" -> "V"
      [] c = "w" -> "W"
      [] c = "x" -> "X"
      [] c = "y" -> "Y"
      [] c = "z" -> "Z"
      [] OTHER -> c

\* String.prototype.toLowerCase on a character.
toLowerCaseChar(c) ==
    CASE c = "A" -> "a"
      [] c = "B" -> "b"
      [] c = "C" -> "c"
      [] c = "D" -> "d"
      [] c = "E" -> "e"
      [] c = "F" -> "f"
      [] c = "G" -> "g"
      [] c = "H" -> "h"
      [] c = "I" -> "i"
      [] c = "J" -> "j"
      [] c = "K" -> "k"
      [] c = "L" -> "l"
      [] c = "M" -> "m"
      [] c = "N" -> "n"
      [] c = "O" -> "o"
      [] c = "P" -> "p"
      [] c = "Q" -> "q"
      [] c = "R" -> "r"
      [] c = "S" -> "s"
      [] c = "T" -> "t"
      [] c = "U" -> "u"
      [] c = "V" -> "v"
      [] c = "W" -> "w"
      [] c = "X" -> "x"
      [] c = "Y" -> "y"
      [] c = "Z" -> "z"
      [] OTHER -> c

\* \w of a regular expression.
WordChars ==
    {"a", "b", "c", "d", "e", "f", "g", "h", "i", "j", "k", "l", "m", "n", "o", "p", "q", "r", "s", "t", "u", "v", "w", "x", "y", "z",
     "A", "B", "C", "D", "E", "F", "G", "H", "I", "J", "K", "L", "M", "N", "O", "P", "Q", "R", "S", "T", "U", "V", "W", "X", "Y", "Z",
     "0", "1", "2", "3", "4", "5", "6", "7", "8", "9", "_"}

\* The characters of a package name.
Chars(name) ==
    CASE name = "a" -> <<"a">>
      [] name = "A" -> <<"A">>
      [] name = "b" -> <<"b">>
      [] name = "B" -> <<"B">>
      [] name = "moment" -> <<"m", "o", "m", "e", "n", "t">>
      [] name = "dayjs" -> <<"d", "a", "y", "j", "s">>

\* The string of a text.
RECURSIVE Str(_)
Str(text) == IF text = <<>> THEN "" ELSE Head(text) \o Str(Tail(text))

\* String.prototype.toLowerCase on a text.
toLowerCaseText(text) == [i \in 1..Len(text) |-> toLowerCaseChar(text[i])]

RECURSIVE GCD(_, _)
GCD(m, n) == IF n = 0 THEN m ELSE GCD(n, m % n)

\* The number num / den, for num >= 0 and den > 0.
Fraction(num, den) ==
    LET g == GCD(num, den) IN [num |-> num \div g, den |-> den \div g]

Zero == Fraction(0, 1)
One == Fraction(1, 1)
Plus(x, y) == Fraction(x.num * y.den + y.num * x.den, x.den * y.den)
Minus(x, y) == Fraction(x.num * y.den - y.num * x.den, x.den * y.den)
Times(x, y) == Fraction(x.num * y.num, x.den * y.den)
DividedBy(x, y) == Fraction(x.num * y.den, x.den * y.num)
GreaterThan(x, y) == x.num * y.den > y.num * x.den
AtLeast(x, y) == x.num * y.den >= y.num * x.den

\* text.split(/\s+/) from the word begun on: a run of spaces gives empty
\* words here, which the filter of extractWords drops as it drops the
\* empty words split leaves at the ends of a text.
RECURSIVE SplitWords(_, _)
SplitWords(text, word) ==
    IF text = <<>> THEN <<word>>
    ELSE IF Head(text) = " " THEN <<word>> \o SplitWords(Tail(text), <<>>)
    ELSE SplitWords(Tail(text), Append(word, Head(text)))

\* extractWords (lines 122-141).
extractWords(text) ==
    LET lower == toLowerCaseText(text)
        spaced == [i \in 1..Len(lower) |->
                      IF lower[i] \in WordChars \/ lower[i] = " " THEN lower[i] ELSE " "]
        Kept(word) == Len(word) > 2 /\ word \notin stopWords
    IN SelectSeq(SplitWords(spaced, <<>>), Kept)

\* Jaccard similarity of two sets that are not both empty.
Jaccard(set1, set2) ==
    Fraction(Cardinality(set1 \cap set2), Cardinality(set1 \cup set2))

\* calculateWordOverlap (lines 146-157).
calculateWordOverlap(words1, words2) ==
    IF Len(words1) = 0 \/ Len(words2) = 0 THEN Zero
    ELSE Jaccard({words1[i] : i \in 1..Len(words1)}, {words2[i] : i \in 1..Len(words2)})

Min3(x, y, z) ==
    IF x <= y /\ x <= z THEN x ELSE IF y <= z THEN y ELSE z

\* Row i of the matrix of levenshteinDistance (lines 176-188) from the row
\* before it, filled from the left: row[j + 1] is matrix[i][j], and c is
\* the character str1[i - 1] of the code.
RECURSIVE FillRow(_, _, _, _)
FillRow(before, c, str2, row) ==
    IF Len(row) = Len(str2) + 1 THEN row
    ELSE LET j == Len(row) IN
         FillRow(before, c, str2,
                 Append(row, IF c = str2[j] THEN before[j]
                             ELSE Min3(before[j + 1] + 1, row[j] + 1, before[j] + 1)))

\* The matrix, row after row: matrix[i + 1] is the code's matrix[i].
RECURSIVE FillMatrix(_, _, _)
FillMatrix(matrix, str1, str2) ==
    IF Len(matrix) = Len(str1) + 1 THEN matrix
    ELSE LET i == Len(matrix) IN
         FillMatrix(Append(matrix, FillRow(matrix[i], str1[i], str2, <<i>>)), str1, str2)

\* levenshteinDistance (lines 162-191).
levenshteinDistance(str1, str2) ==
    FillMatrix(<<[j \in 1..(Len(str2) + 1) |-> j - 1]>>, str1, str2)[Len(str1) + 1][Len(str2) + 1]

MaxOf(x, y) == IF x >= y THEN x ELSE y

\* calculateTextSimilarity (lines 101-117).
calculateTextSimilarity(text1, text2) ==
    IF text1 = <<>> \/ text2 = <<>> THEN Zero
    ELSE IF text1 = text2 THEN One
    ELSE LET wordOverlap == calculateWordOverlap(extractWords(text1), extractWords(text2))
             maxLen == MaxOf(Len(text1), Len(text2))
             levenshteinScore ==
                 Minus(One, Fraction(levenshteinDistance(text1, text2), maxLen))
         IN Plus(Times(wordOverlap, Fraction(7, 10)), Times(levenshteinScore, Fraction(3, 10)))

\* Mutant: the keywords shared are counted against the first list's.
calculateKeywordOverlapOfFirst(keywords1, keywords2) ==
    IF Len(keywords1) = 0 \/ Len(keywords2) = 0 THEN Zero
    ELSE LET set1 == {toLowerCase(keywords1[i]) : i \in 1..Len(keywords1)}
             set2 == {toLowerCase(keywords2[i]) : i \in 1..Len(keywords2)}
         IN Fraction(Cardinality(set1 \cap set2), Cardinality(set1))

\* calculateKeywordOverlap (lines 196-207).
calculateKeywordOverlap(keywords1, keywords2) ==
    IF Len(keywords1) = 0 \/ Len(keywords2) = 0 THEN Zero
    ELSE Jaccard({toLowerCase(keywords1[i]) : i \in 1..Len(keywords1)},
                 {toLowerCase(keywords2[i]) : i \in 1..Len(keywords2)})

\* A PackageMetadata holds a description that is not the empty string, a
\* keywords array that is not empty: an optional property that is undefined
\* is no field of the record.
HasDescription(metadata) ==
    "description" \in DOMAIN metadata /\ metadata.description # <<>>
HasKeywords(metadata) ==
    "keywords" \in DOMAIN metadata /\ Len(metadata.keywords) > 0

descriptionThreshold == Fraction(5, 10)
keywordThreshold == Fraction(3, 10)

\* The three components of calculateSimilarity (lines 30-57): each one's
\* score and weight, for the components that count.
Components(pkg1, pkg2) ==
    (IF HasDescription(pkg1) /\ HasDescription(pkg2)
     THEN <<[score |-> calculateTextSimilarity(toLowerCaseText(pkg1.description),
                                               toLowerCaseText(pkg2.description)),
             weight |-> Fraction(6, 10)]>>
     ELSE <<>>)
    \o (IF HasKeywords(pkg1) /\ HasKeywords(pkg2)
        THEN <<[score |-> calculateKeywordOverlap(pkg1.keywords, pkg2.keywords),
                weight |-> Fraction(3, 10)]>>
        ELSE <<>>)
    \o <<[score |-> calculateTextSimilarity(Chars(toLowerCase(pkg1.name)),
                                            Chars(toLowerCase(pkg2.name))),
          weight |-> Fraction(1, 10)]>>

RECURSIVE TotalScore(_)
TotalScore(components) ==
    IF components = <<>> THEN Zero
    ELSE Plus(Times(Head(components).score, Head(components).weight),
              TotalScore(Tail(components)))

RECURSIVE WeightSum(_)
WeightSum(components) ==
    IF components = <<>> THEN Zero
    ELSE Plus(Head(components).weight, WeightSum(Tail(components)))

\* The reasons of calculateSimilarity (lines 38-40, 48-50).
Reasons(pkg1, pkg2) ==
    (IF /\ HasDescription(pkg1) /\ HasDescription(pkg2)
        /\ GreaterThan(calculateTextSimilarity(toLowerCaseText(pkg1.description),
                                               toLowerCaseText(pkg2.description)),
                       descriptionThreshold)
     THEN <<"similar descriptions">> ELSE <<>>)
    \o (IF /\ HasKeywords(pkg1) /\ HasKeywords(pkg2)
           /\ GreaterThan(calculateKeywordOverlap(pkg1.keywords, pkg2.keywords),
                          keywordThreshold)
        THEN <<"shared keywords">> ELSE <<>>)

\* Mutant: the total is not divided by the weights that count.
calculateSimilarityUnnormalized(pkg1, pkg2) ==
    [package1 |-> pkg1.name, package2 |-> pkg2.name,
     score |-> TotalScore(Components(pkg1, pkg2)),
     reasons |-> Reasons(pkg1, pkg2)]

\* finalScore (line 61).
finalScore(totalScore, weightSum) ==
    IF GreaterThan(weightSum, Zero) THEN DividedBy(totalScore, weightSum) ELSE Zero

\* calculateSimilarity (lines 22-69).
calculateSimilarity(pkg1, pkg2) ==
    [package1 |-> pkg1.name, package2 |-> pkg2.name,
     score |-> finalScore(TotalScore(Components(pkg1, pkg2)),
                          WeightSum(Components(pkg1, pkg2))),
     reasons |-> Reasons(pkg1, pkg2)]

\* The similarities findSimilarPackages pushes (lines 81-91), from key i of
\* the map on: keys holds the map's keys in the order of its entries.
RECURSIVE SimilarFrom(_, _, _, _, _)
SimilarFrom(targetPackage, allPackages, keys, threshold, i) ==
    IF i > Len(keys) THEN <<>>
    ELSE SelectSeq(<<calculateSimilarity(targetPackage, allPackages[keys[i]])>>,
                   LAMBDA similarity :
                       /\ toLowerCase(keys[i]) # toLowerCase(targetPackage.name)
                       /\ AtLeast(similarity.score, threshold))
         \o SimilarFrom(targetPackage, allPackages, keys, threshold, i + 1)

\* An integer proportional to each score of a list.
RECURSIVE Denominators(_)
Denominators(similar) ==
    IF similar = <<>> THEN 1 ELSE Head(similar).score.den * Denominators(Tail(similar))

\* similarities.sort((a, b) => b.score - a.score) (line 93).
SortedByScore(similar) ==
    SortDescending(similar,
                   [i \in 1..Len(similar) |->
                       similar[i].score.num * (Denominators(similar) \div similar[i].score.den)])

\* findSimilarPackages (lines 74-96): sorted by score, highest first.
findSimilarPackages(targetPackage, allPackages, keys, threshold) ==
    SortedByScore(SimilarFrom(targetPackage, allPackages, keys, threshold, 1))

\* pattern.test(text): one of the alternatives occurs in the text.
Matches(pattern, text) ==
    \E alternative \in pattern :
        \E at \in 1..(Len(text) - Len(alternative) + 1) :
            SubSeq(text, at, at + Len(alternative) - 1) = alternative

\* inferCategory (lines 212-245).
inferCategory(metadata) ==
    LET description == IF HasDescription(metadata)
                       THEN toLowerCaseText(metadata.description) ELSE <<>>
        matching == {i \in 1..Len(categoryPatterns) :
                        Matches(categoryPatterns[i].pattern, description)}
        words == extractWords(IF description # <<>> THEN description
                              ELSE Chars(metadata.name))
    IN IF matching # {}
       THEN categoryPatterns[CHOOSE i \in matching : \A j \in matching : i <= j].category
       ELSE IF Len(words) > 0
       THEN Str(<<toUpperCaseChar(words[1][1])>> \o Tail(words[1])) \o " Libraries"
       ELSE "Similar Packages"

(***************************************************************************)
(* DynamicGroupsGenerator.findSimilarGroups (dynamic-groups.ts)            *)
(***************************************************************************)
similarityThreshold == Fraction(7, 10)

\* String.prototype.trim leaves nothing of the text.
Blank(text) == \A i \in 1..Len(text) : text[i] = " "

\* selectRecommendedPackage (lines 172-206): the first package of the best
\* score above 0; no metadata of the model names a repository.
MetadataScore(metadata) ==
    (IF HasDescription(metadata) THEN 1 ELSE 0) + (IF HasKeywords(metadata) THEN 1 ELSE 0)
selectRecommendedPackage(packageNames, allPackages) ==
    LET score(i) == IF allPackages[toLowerCase(packageNames[i])] = Absent THEN 0
                    ELSE MetadataScore(allPackages[toLowerCase(packageNames[i])])
        best == {i \in 1..Len(packageNames) :
                    /\ score(i) > 0
                    /\ \A j \in 1..Len(packageNames) :
                          score(j) < score(i) \/ (score(j) = score(i) /\ i <= j)}
    IN IF best = {} THEN packageNames[1] ELSE packageNames[CHOOSE i \in best : TRUE]

\* generateDescription (lines 213-237): the generalized description is no
\* longer than the description, and is returned when longer than 20
\* characters.
generateDescription(primary) ==
    IF HasDescription(primary) /\ Len(primary.description) > 20
    THEN Str(primary.description)
    ELSE "Libraries providing similar functionality"

\* The group findSimilarGroups pushes for a seed and its similar packages
\* (lines 139-159).
SimilarGroup(metadata, similar, allPackages) ==
    [category |-> inferCategory(metadata),
     description |-> generateDescription(metadata),
     packages |-> <<metadata.name>> \o [i \in 1..Len(similar) |-> similar[i].package2],
     recommended |->
         selectRecommendedPackage(
             <<metadata.name>> \o [i \in 1..Len(similar) |-> similar[i].package2],
             allPackages)]

\* The groups one turn of the loop pushes (lines 136-159): none if no
\* package is similar.
GroupsPushed(metadata, similar, allPackages) ==
    IF Len(similar) = 0 THEN <<>> ELSE <<SimilarGroup(metadata, similar, allPackages)>>

\* The names processed.add marks for the groups pushed (line 162).
Marked(pushed) ==
    IF pushed = <<>> THEN {}
    ELSE {toLowerCase(pushed[1].packages[j]) : j \in 1..Len(pushed[1].packages)}

\* Mutant: a package already in a group is a seed as well.
RECURSIVE SimilarGroupsOfAll(_, _, _, _)
SimilarGroupsOfAll(allPackages, keys, i, processed) ==
    IF i > Len(keys) THEN <<>>
    ELSE (IF HasDescription(allPackages[keys[i]]) /\ ~Blank(allPackages[keys[i]].description)
          THEN GroupsPushed(allPackages[keys[i]],
                            findSimilarPackages(allPackages[keys[i]], allPackages, keys,
                                                similarityThreshold),
                            allPackages)
          ELSE <<>>)
         \o SimilarGroupsOfAll(allPackages, keys, i + 1, processed)

\* The loop of findSimilarGroups (lines 121-164) from entry i of the map on,
\* processed being the names marked.
RECURSIVE SimilarGroupsFrom(_, _, _, _), SimilarGroupsAfter(_, _, _, _, _)
SimilarGroupsFrom(allPackages, keys, i, processed) ==
    IF i > Len(keys) THEN <<>>
    ELSE IF keys[i] \in processed
    THEN SimilarGroupsFrom(allPackages, keys, i + 1, processed)
    ELSE IF ~HasDescription(allPackages[keys[i]]) \/ Blank(allPackages[keys[i]].description)
    THEN SimilarGroupsFrom(allPackages, keys, i + 1, processed)
    ELSE SimilarGroupsAfter(allPackages, keys, i, processed,
                            GroupsPushed(allPackages[keys[i]],
                                         findSimilarPackages(allPackages[keys[i]], allPackages,
                                                             keys, similarityThreshold),
                                         allPackages))

\* The rest of the loop after the turn of entry i, pushed being the groups
\* that turn has pushed (lines 154-163).
SimilarGroupsAfter(allPackages, keys, i, processed, pushed) ==
    pushed \o SimilarGroupsFrom(allPackages, keys, i + 1, processed \cup Marked(pushed))

\* findSimilarGroups (lines 113-167) on a map whose keys were set in the
\* order of keys.
findSimilarGroups(allPackages, keys) == SimilarGroupsFrom(allPackages, keys, 1, {})

(***************************************************************************)
(* PackageAnalyzer and the analyze call                                    *)
(***************************************************************************)
\* A package.json: missing, not JSON, the JSON null, or a manifest.
ManifestKinds == {"absent", "unparsable", "null", "ok"}
ManifestFaults == {"absent", "unparsable", "null"}

EmptyMap == [k \in LowerNames |-> Absent]

\* The descriptions and keyword lists of the package.json files read.
DateFmtUtc == <<"d", "a", "t", "e", " ", "f", "m", "t", " ", "u", "t", "c">>
DateFmtUtcIso == DateFmtUtc \o <<" ", "i", "s", "o">>
DateFmtUtcTitle == <<"D">> \o Tail(DateFmtUtc)
DateText == <<"d", "a", "t", "e">>
DateFmt == <<"d", "a", "t", "e", "-", "f", "m", "t">>
ThreeKeywords == <<"A", "b", "k3">>
TenKeywords == <<"a", "B", "k3", "k4", "k5", "k6", "k7", "k8", "k9", "k10">>

\* The description and keywords properties of a package.json, for the
\* manifests that hold one of them.
PackageJson(manifest) ==
    CASE manifest = "date fmt utc" -> [description |-> DateFmtUtc]
      [] manifest = "date fmt utc, three keywords" ->
            [description |-> DateFmtUtc, keywords |-> ThreeKeywords]
      [] manifest = "date fmt utc iso, three keywords" ->
            [description |-> DateFmtUtcIso, keywords |-> ThreeKeywords]
      [] manifest = "three keywords" -> [keywords |-> ThreeKeywords]
      [] manifest = "blank, ten keywords" ->
            [description |-> <<" ", " ">>, keywords |-> TenKeywords]
      [] manifest = "Date fmt utc" -> [description |-> DateFmtUtcTitle]
      [] manifest = "date" -> [description |-> DateText]
      [] manifest = "date-fmt" -> [description |-> DateFmt]
      [] manifest = "empty" -> [description |-> <<>>, keywords |-> <<>>]
DescribedManifests ==
    {"date fmt utc", "date fmt utc, three keywords", "date fmt utc iso, three keywords",
     "three keywords", "blank, ten keywords", "Date fmt utc", "date", "date-fmt", "empty"}

\* The try block of extractMetadata (lines 27-46): existsSync false returns
\* null; JSON.parse throws on a text that is not JSON; reading a property of
\* null throws.
ExtractMetadataTry(name, manifest) ==
    IF manifest = "absent" THEN Null
    ELSE IF manifest \in {"unparsable", "null"} THEN Throw
    ELSE IF manifest \in DescribedManifests
    THEN LET json == PackageJson(manifest) IN
         [k \in {"tag", "name", "version"} \cup DOMAIN json |->
             CASE k = "tag" -> "meta"
               [] k = "name" -> name
               [] k = "version" -> 1
               [] OTHER -> json[k]]
    ELSE [tag |-> "meta", name |-> name, version |-> 1]

\* Mutant: the error is not caught.
extractMetadataNoCatch(name, manifest) ==
    ExtractMetadataTry(name, manifest)

\* extractMetadata (lines 26-50): the catch block returns null.
extractMetadata(name, manifest) ==
    LET r == ExtractMetadataTry(name, manifest) IN
    IF r.tag = "throw" THEN Null ELSE r

\* extractMetadataBatch (lines 55-66), from package i on: the map, or Throw
\* when a call throws.
RECURSIVE ExtractFrom(_, _, _, _)
ExtractFrom(map, pkgs, mfs, i) ==
    IF i > Len(pkgs) THEN [tag |-> "map", map |-> map]
    ELSE LET m == extractMetadata(pkgs[i].name, mfs[i]) IN
         IF m.tag = "throw" THEN Throw
         ELSE ExtractFrom(IF m.tag = "meta"
                          THEN [map EXCEPT ![toLowerCase(pkgs[i].name)] = m]
                          ELSE map,
                          pkgs, mfs, i + 1)

extractMetadataBatch(pkgs, mfs) == ExtractFrom(EmptyMap, pkgs, mfs, 1)

\* missingPackages (detector lines 59-61, dynamic-groups lines 90-92).
RECURSIVE MissingFrom(_, _, _)
MissingFrom(pkgs, map, i) ==
    IF i > Len(pkgs) THEN <<>>
    ELSE (IF map[toLowerCase(pkgs[i].name)] = Absent THEN <<pkgs[i].name>> ELSE <<>>)
         \o MissingFrom(pkgs, map, i + 1)

MissingPackages(pkgs, map) == MissingFrom(pkgs, map, 1)

\* for (const [name, meta] of npmMetadata.entries()) map.set(name, meta)
\* (detector lines 65-67, dynamic-groups lines 97-99).
MergeMetadata(map, npmMetadata) ==
    [k \in LowerNames |-> IF npmMetadata[k] # Absent THEN npmMetadata[k] ELSE map[k]]

\* The keys of allMetadata in the order of its entries (dynamic-groups lines
\* 84-99): the keys extractMetadataBatch has set, then those set from the
\* registry's metadata, which fetchPackageMetadataBatch sets in the order of
\* the names asked for.
EntryKeys(pkgs, mfs, map) ==
    LET Local(i) == extractMetadata(pkgs[i].name, mfs[i]) # Null
        Set(i) == map[toLowerCase(pkgs[i].name)] # Absent
        local == SelectSeq([i \in 1..Len(pkgs) |-> i], Local)
        set == SelectSeq([i \in 1..Len(pkgs) |-> i], Set)
    IN Distinct([k \in 1..Len(local) |-> toLowerCase(pkgs[local[k]].name)]
                \o [k \in 1..Len(set) |-> toLowerCase(pkgs[set[k]].name)])

\* The head of FUNCTIONAL_DUPLICATE_GROUPS (duplicate-groups lines 10-16);
\* the groups after it have the same shape and other packages.
FUNCTIONAL_DUPLICATE_GROUPS ==
    << [category |-> "Date/Time Manipulation",
        description |-> "Libraries for parsing, validating, manipulating, and displaying dates",
        packages |-> <<"moment", "dayjs", "date-fns", "luxon", "js-joda">>,
        recommended |-> "dayjs"] >>

\* group.packages.some(p => p.toLowerCase() === name.toLowerCase())
Lists(group, name) ==
    \E i \in 1..Len(group.packages) :
        toLowerCase(group.packages[i]) = toLowerCase(name)

\* groups.filter(group => group lists name)
RECURSIVE GroupsListing(_, _)
GroupsListing(groups, name) ==
    IF groups = <<>> THEN <<>>
    ELSE (IF Lists(Head(groups), name) THEN <<Head(groups)>> ELSE <<>>)
         \o GroupsListing(Tail(groups), name)

\* Mutant: the names are compared as they are written.
RECURSIVE MergeGroupsCaseSensitive(_, _)
MergeGroupsCaseSensitive(allGroups, dynamicGroups) ==
    IF dynamicGroups = <<>> THEN allGroups
    ELSE LET g == Head(dynamicGroups)
             isDuplicate == \E i \in 1..Len(allGroups), j \in 1..Len(g.packages) :
                               g.packages[j] \in Range(allGroups[i].packages)
         IN MergeGroupsCaseSensitive(IF isDuplicate THEN allGroups ELSE Append(allGroups, g),
                                     Tail(dynamicGroups))

\* Mutant: a dynamic group is compared with the groups the merge began with.
MergeGroupsWithFirst(allGroups, dynamicGroups) ==
    LET Kept(g) == ~\E i \in 1..Len(allGroups), j \in 1..Len(g.packages) :
                       Lists(allGroups[i], g.packages[j])
    IN allGroups \o SelectSeq(dynamicGroups, Kept)

\* The merge of getAllFunctionalDuplicateGroups (lines 155-167): a dynamic
\* group is pushed unless a group already in allGroups lists one of its
\* packages.
RECURSIVE MergeGroups(_, _)
MergeGroups(allGroups, dynamicGroups) ==
    IF dynamicGroups = <<>> THEN allGroups
    ELSE LET g == Head(dynamicGroups)
             isDuplicate == \E i \in 1..Len(allGroups), j \in 1..Len(g.packages) :
                               Lists(allGroups[i], g.packages[j])
         IN MergeGroups(IF isDuplicate THEN allGroups ELSE Append(allGroups, g),
                        Tail(dynamicGroups))

\* packageMap.get(key) (detector lines 44-49): the last package of the
\* inventory with that lowercase name.
PackageMapGet(pkgs, key) ==
    LET at == {i \in 1..Len(pkgs) : toLowerCase(pkgs[i].name) = key} IN
    IF at = {} THEN Absent
    ELSE [tag |-> "package", info |-> pkgs[CHOOSE i \in at : \A j \in at : j <= i]]

\* foundPackages (detector lines 114-141): the installed packages of a group.
RECURSIVE FoundPackages(_, _)
FoundPackages(pkgs, groupPackages) ==
    IF groupPackages = <<>> THEN <<>>
    ELSE LET installed == PackageMapGet(pkgs, toLowerCase(Head(groupPackages))) IN
         (IF installed = Absent THEN <<>>
          ELSE <<[name |-> installed.info.name, version |-> installed.info.version,
                  size |-> installed.info.size, path |-> installed.info.path]>>)
         \o FoundPackages(pkgs, Tail(groupPackages))

\* Mutant: a group with one installed package is pushed as well.
RECURSIVE ProcessGroupsOfOne(_, _, _)
ProcessGroupsOfOne(detected, groups, pkgs) ==
    IF groups = <<>> THEN detected
    ELSE LET group == Head(groups)
             processed == \E i \in 1..Len(detected) : detected[i].category = group.category
             found == FoundPackages(pkgs, group.packages)
         IN ProcessGroupsOfOne(
                IF ~processed /\ Len(found) > 0
                THEN Append(detected, [category |-> group.category,
                                       description |-> group.description,
                                       foundPackages |-> found,
                                       totalSize |->
                                           SumSeq([i \in 1..Len(found) |-> found[i].size]),
                                       recommended |-> group.recommended])
                ELSE detected,
                Tail(groups), pkgs)

\* The loop over a package's groups (detector lines 104-157): a group not
\* yet processed with more than one installed package is pushed.
RECURSIVE ProcessGroups(_, _, _)
ProcessGroups(detected, groups, pkgs) ==
    IF groups = <<>> THEN detected
    ELSE LET group == Head(groups)
             processed == \E i \in 1..Len(detected) : detected[i].category = group.category
             found == FoundPackages(pkgs, group.packages)
         IN ProcessGroups(
                IF ~processed /\ Len(found) > 1
                THEN Append(detected, [category |-> group.category,
                                       description |-> group.description,
                                       foundPackages |-> found,
                                       totalSize |->
                                           SumSeq([i \in 1..Len(found) |-> found[i].size]),
                                       recommended |-> group.recommended])
                ELSE detected,
                Tail(groups), pkgs)

\* Mutant: the largest package is not spared.
PotentialSavingsOfTotals(detected) ==
    SumSeq([k \in 1..Len(detected) |-> detected[k].totalSize])

\* FunctionalDuplicateReporter.calculatePotentialSavings (reporter lines
\* 145-155).
calculatePotentialSavings(duplicate) ==
    LET sizes == [i \in 1..Len(duplicate.foundPackages) |->
                     duplicate.foundPackages[i].size]
    IN IF Len(duplicate.foundPackages) <= 1 THEN 0
       ELSE SumSeq(sizes) - MaxSeq(sizes)

\* totalPotentialSavings (detector lines 161-171): for each report, the
\* sizes of its packages but the largest.
PotentialSavings(detected) ==
    SumSeq([k \in 1..Len(detected) |->
               LET sizes == [i \in 1..Len(detected[k].foundPackages) |->
                                detected[k].foundPackages[i].size]
               IN IF Len(sizes) <= 1 THEN 0 ELSE SumSeq(sizes) - MaxSeq(sizes)])

\* detectedDuplicates.sort((a, b) => b.totalSize - a.totalSize) (detector
\* line 174).
SortByTotalSize(detected) ==
    SortDescending(detected, [i \in 1..Len(detected) |-> detected[i].totalSize])

\* The return value of analyze (detector lines 160-180).
AnalyzeResult(detected) ==
    [tag |-> "result", duplicates |-> SortByTotalSize(detected),
     totalGroups |-> Len(detected),
     totalPotentialSavings |-> PotentialSavings(detected)]

\* `useNpmRegistry && this.npmClient` and `missingPackages.length > 0`
\* (dynamic-groups lines 89, 94).
GeneratorFetches(opts, missing) ==
    opts.useNpmRegistry /\ opts.clientMade /\ Len(missing) > 0

\* A fetchPackageMetadataBatch(names) is about to be called on a client just
\* constructed (detector line 57 on the first analyze of a detector,
\* dynamic-groups line 75 for every generator).
StartFetch(names) ==
    /\ batchNames' = names
    /\ batchPc' = "idle"
    /\ batchI' = 1
    /\ batchCursor' = 1
    /\ batchResults' = [c \in CallIds |-> Absent]
    /\ metadataMap' = EmptyMap
    /\ resolvedKeys' = {}
    /\ cache' = EmptyMap
    /\ requestQueue' = <<>>
    /\ activeRequests' = 0
    /\ pc' = [c \in CallIds |-> "idle"]
    /\ callName' = [c \in CallIds |-> ""]
    /\ lastRet' = Absent
    /\ fetched' = EmptyMap

\* The call raises: its promise is rejected.
Raise ==
    /\ anPc' = "raised"
    /\ result' = Throw

\* generateGroups up to its await (dynamic-groups lines 81-96), for caller.
GenStart(caller) ==
    LET local == extractMetadataBatch(packages, manifests) IN
    /\ genCaller' = caller
    /\ IF local.tag = "throw"
       THEN /\ Raise
            /\ UNCHANGED <<allMetadata, clientVars, batchVars>>
       ELSE LET missing == MissingPackages(packages, local.map) IN
            /\ allMetadata' = local.map
            /\ result' = result
            /\ IF GeneratorFetches(options, missing)
               THEN anPc' = "gen.fetch" /\ StartFetch(missing)
               ELSE anPc' = "gen.ready" /\ UNCHANGED <<clientVars, batchVars>>

\* getAllFunctionalDuplicateGroups up to its await (duplicate-groups lines
\* 119-144), for caller: the groups it returns at once, or none yet.
CachedDynamicGroups ==
    IF options.useCache
    THEN LET cached == getCachedGroups(cacheFile, PackageNames(packages), now) IN
         IF cached.tag = "groups" THEN cached.groups ELSE <<>>
    ELSE <<>>

\* analyze goes on with the groups of the package the loop is at (detector
\* lines 104-158).
LoopNext(groups) ==
    /\ detectedDuplicates' = ProcessGroups(detectedDuplicates, groups, packages)
    /\ loopK' = loopK + 1
    /\ anPc' = "analyze.loop"
    /\ result' = result

\* getAllFunctionalDuplicateGroups returns allGroups to caller: to analyze
\* at line 78, which goes on to the loop, to a caller of its own, or to
\* findGroupsForPackage, which filters them for the package
\* (duplicate-groups lines 203-205).
ReturnAllGroups(caller, allGroups) ==
    IF caller = "allGroups"
    THEN /\ anPc' = "analyze.loop"
         /\ UNCHANGED <<loopK, detectedDuplicates, result>>
    ELSE IF caller = "getAll"
    THEN /\ anPc' = "done"
         /\ result' = [tag |-> "allGroups", groups |-> allGroups]
         /\ UNCHANGED <<loopK, detectedDuplicates>>
    ELSE \E listed \in {GroupsListing(allGroups, packages[loopK].name)} : LoopNext(listed)

\* getAllFunctionalDuplicateGroups is called for caller.
GetAllGroups(caller) ==
    \E dynamicGroups \in {CachedDynamicGroups} :
        IF Len(packages) = 0
        THEN /\ ReturnAllGroups(caller, FUNCTIONAL_DUPLICATE_GROUPS)
             /\ UNCHANGED <<genCaller, allMetadata, clientVars, batchVars>>
        ELSE IF Len(dynamicGroups) # 0
        THEN /\ \E allGroups \in {MergeGroups(FUNCTIONAL_DUPLICATE_GROUPS, dynamicGroups)} :
                    ReturnAllGroups(caller, allGroups)
             /\ UNCHANGED <<genCaller, allMetadata, clientVars, batchVars>>
        ELSE /\ GenStart(caller)
             /\ UNCHANGED <<loopK, detectedDuplicates>>

\* detector.analyze(pkgs, opts) is called, with mfs what the packages'
\* package.json files hold (detector lines 34-64).
AnalyzeCall(pkgs, mfs, opts) ==
    LET local == extractMetadataBatch(pkgs, mfs) IN
    /\ anPc = "idle"
    /\ packages' = pkgs
    /\ manifests' = mfs
    /\ options' = opts
    /\ IF local.tag = "throw"
       THEN /\ Raise
            /\ UNCHANGED <<analyzeMetadata, clientVars, batchVars>>
       ELSE LET missing == MissingPackages(pkgs, local.map) IN
            /\ analyzeMetadata' = local.map
            /\ result' = result
            /\ IF opts.useNpmRegistry /\ Len(missing) > 0
               THEN anPc' = "analyze.fetch" /\ StartFetch(missing)
               ELSE anPc' = "analyze.groups" /\ UNCHANGED <<clientVars, batchVars>>
    /\ UNCHANGED <<allMetadata, genCaller, loopK, detectedDuplicates, fetchLog>>
    /\ UNCHANGED <<clockVars, groupCacheVars>>

\* new DynamicGroupsGenerator(made).generateGroups(pkgs, useNpmRegistry) is
\* called.
GenerateCall(pkgs, mfs, made, useNpmRegistry) ==
    /\ anPc = "idle"
    /\ packages' = pkgs
    /\ manifests' = mfs
    /\ options' = [NoOptions EXCEPT !.useNpmRegistry = useNpmRegistry, !.clientMade = made]
    /\ anPc' = "gen.start"
    /\ UNCHANGED <<analyzeMetadata, allMetadata, genCaller, loopK, detectedDuplicates,
                   result, fetchLog>>
    /\ UNCHANGED <<clockVars, clientVars, batchVars, groupCacheVars>>

\* The body of that call up to its await.
GenerateStart ==
    /\ anPc = "gen.start"
    /\ GenStart("api")
    /\ UNCHANGED <<packages, manifests, options, analyzeMetadata, loopK,
                   detectedDuplicates, fetchLog>>
    /\ UNCHANGED <<clockVars, groupCacheVars>>

\* The fetchPackageMetadataBatch awaited starts (the call of line 64, or of
\* dynamic-groups line 95).
FetchBegin ==
    /\ anPc \in {"analyze.fetch", "gen.fetch"}
    /\ BatchBegin

\* History: a batch has returned.
Logged ==
    [made |-> TRUE, resolved |-> fetchLog.resolved \/ resolvedKeys # {}]

\* analyze after its await (detector lines 64-72): the registry's metadata
\* are merged in.
AnalyzeMerge ==
    /\ anPc = "analyze.fetch"
    /\ batchPc = "done"
    /\ analyzeMetadata' = MergeMetadata(analyzeMetadata, metadataMap)
    /\ anPc' = "analyze.groups"
    /\ fetchLog' = Logged
    /\ UNCHANGED <<packages, manifests, options, allMetadata, genCaller, loopK,
                   detectedDuplicates, result>>
    /\ UNCHANGED <<clockVars, clientVars, batchVars, groupCacheVars>>

\* analyze's allGroups (detector lines 78-88).
AnalyzeGroups ==
    /\ anPc = "analyze.groups"
    /\ IF options.useDynamic
       THEN GetAllGroups("allGroups")
       ELSE /\ anPc' = "analyze.loop"
            /\ UNCHANGED <<genCaller, allMetadata, loopK, detectedDuplicates, result>>
            /\ UNCHANGED <<clientVars, batchVars>>
    /\ UNCHANGED <<packages, manifests, options, analyzeMetadata, fetchLog>>
    /\ UNCHANGED <<clockVars, groupCacheVars>>

\* generateGroups after its await (dynamic-groups lines 95-100).
GenMerge ==
    /\ anPc = "gen.fetch"
    /\ batchPc = "done"
    /\ allMetadata' = MergeMetadata(allMetadata, metadataMap)
    /\ anPc' = "gen.ready"
    /\ fetchLog' = Logged
    /\ UNCHANGED <<packages, manifests, options, analyzeMetadata, genCaller, loopK,
                   detectedDuplicates, result>>
    /\ UNCHANGED <<clockVars, clientVars, batchVars, groupCacheVars>>

\* generateGroups returns its groups (dynamic-groups lines 104-107): to the
\* caller of the API, or to getAllFunctionalDuplicateGroups, which caches a
\* non-empty list and merges (duplicate-groups lines 144-170).
GenReturn ==
    /\ anPc = "gen.ready"
    /\ \E groups \in {findSimilarGroups(allMetadata,
                                        EntryKeys(packages, manifests, allMetadata))} :
          IF genCaller = "api"
          THEN /\ anPc' = "done"
               /\ result' = Groups(groups)
               /\ UNCHANGED <<loopK, detectedDuplicates, cacheFile>>
          ELSE /\ cacheFile' = IF options.useCache /\ Len(groups) > 0
                               THEN cacheGroups(cacheFile, PackageNames(packages), groups,
                                                NoTTL, now)
                               ELSE cacheFile
               /\ ReturnAllGroups(genCaller, MergeGroups(FUNCTIONAL_DUPLICATE_GROUPS, groups))
    /\ UNCHANGED <<packages, manifests, options, analyzeMetadata, allMetadata,
                   genCaller, fetchLog, got, lastPut, lastClear>>
    /\ UNCHANGED <<clockVars, clientVars, batchVars>>

\* One turn of the loop over the packages (detector lines 91-103), or the
\* code after it (lines 160-180). With useDynamic, findGroupsForPackage
\* returns the hardcoded groups that list the package if there are any
\* (duplicate-groups lines 186-192).
AnalyzeLoop ==
    /\ anPc = "analyze.loop"
    /\ IF loopK > Len(packages)
       THEN /\ anPc' = "done"
            /\ result' = AnalyzeResult(detectedDuplicates)
            /\ UNCHANGED <<genCaller, allMetadata, loopK, detectedDuplicates>>
            /\ UNCHANGED <<clientVars, batchVars>>
       ELSE LET hardcodedGroups == GroupsListing(FUNCTIONAL_DUPLICATE_GROUPS, packages[loopK].name) IN
            IF Len(hardcodedGroups) > 0 \/ ~options.useDynamic
            THEN /\ LoopNext(hardcodedGroups)
                 /\ UNCHANGED <<genCaller, allMetadata, clientVars, batchVars>>
            ELSE GetAllGroups("loop")
    /\ UNCHANGED <<packages, manifests, options, analyzeMetadata, fetchLog>>
    /\ UNCHANGED <<clockVars, groupCacheVars>>

(***************************************************************************)
(* SpecFail: one analyze or generateGroups call, whose manifests and       *)
(* registry requests may each fail.                                        *)
(***************************************************************************)
MomentInfo == [name |-> "moment", version |-> "2.0.0", path |-> "/moment", size |-> 2]
DayjsInfo == [name |-> "dayjs", version |-> "1.0.0", path |-> "/dayjs", size |-> 1]
BInfo == [name |-> "b", version |-> "1.0.0", path |-> "/b", size |-> 3]
Inventories == {<<>>, <<MomentInfo, BInfo>>, <<DayjsInfo, MomentInfo>>}
\* The manifests tried: every package.json of the same kind, or only the
\* first one a manifest.
ManifestsOf(pkgs) ==
    {[i \in 1..Len(pkgs) |-> k] : k \in ManifestKinds}
    \cup {[i \in 1..Len(pkgs) |-> IF i = 1 THEN "ok" ELSE "null"]}
DetectorOptions ==
    [useDynamic : BOOLEAN, useNpmRegistry : BOOLEAN, useCache : BOOLEAN,
     clientMade : BOOLEAN]
FailResponse(n) == [name |-> toLowerCase(n), version |-> 1, latest |-> 0]

\* A record of an earlier run, for the inventory <<"moment", "b">>.
EarlierRecord ==
    cacheGroups(Absent, <<"moment", "b">>, <<GroupB>>, NoTTL, 0)

InitFail ==
    /\ InitClock /\ InitClient /\ InitNoBatch /\ InitNoAnalyze
    /\ cacheFile \in {Absent, Garbage, EarlierRecord}
    /\ got = Absent
    /\ lastPut = Absent
    /\ lastClear = "none"

NextFail ==
    \/ \E pkgs \in Inventories, opts \in DetectorOptions :
          \E mfs \in ManifestsOf(pkgs) :
              \* getAllFunctionalDuplicateGroups constructs the generator
              \* with useNpmRegistry (duplicate-groups line 143)
              opts.clientMade = opts.useNpmRegistry /\ AnalyzeCall(pkgs, mfs, opts)
    \/ \E pkgs \in Inventories, made \in BOOLEAN, useNpmRegistry \in BOOLEAN :
          \E mfs \in ManifestsOf(pkgs) : GenerateCall(pkgs, mfs, made, useNpmRegistry)
    \/ GenerateStart
    \/ FetchBegin
    \/ BatchStartNext
    \/ \E id \in CallIds : IssueRequest(id)
    \/ \E id \in CallIds :
          \E r \in Returns(Outcomes, {FailResponse(callName[id])}) : Complete(id, r)
    \/ \E id \in CallIds : UrlFault(id)
    \/ BatchCollect
    \/ AnalyzeMerge
    \/ AnalyzeGroups
    \/ GenMerge
    \/ GenReturn
    \/ AnalyzeLoop

SpecFail == InitFail /\ [][NextFail]_vars

\* Every request ends: with a response, an error, or its timeout (npm-client
\* lines 58-92); the event loop runs every continuation that is due.
SpecFailFair == SpecFail /\ WF_vars(NextFail)

(***************************************************************************)
(* SpecFunctional: one analyze call without registry lookups on an         *)
(* inventory of at most MaxInventory installed packages, with the static   *)
(* catalog alone or with the dynamic groups an earlier run has cached.     *)
(***************************************************************************)
FunctionalInstalled ==
    { MomentInfo,
      [name |-> "moment", version |-> "1.0.0", path |-> "/a/moment", size |-> 4],
      DayjsInfo,
      [name |-> "a", version |-> "1.0.0", path |-> "/a", size |-> 3],
      [name |-> "A", version |-> "1.1.0", path |-> "/A", size |-> 0],
      BInfo }

\* The scanner's inventories: each path is scanned once.
FunctionalInventories ==
    {inv \in UNION {[1..n -> FunctionalInstalled] : n \in 0..MaxInventory} :
        \A i, j \in 1..Len(inv) : inv[i].path = inv[j].path => i = j}

\* A dynamic group whose description names dates: inferCategory gives it
\* the category of the static catalog's first group (similarity-analyzer
\* line 218).
GroupOfDates ==
    [category |-> "Date/Time Manipulation", description |-> "Format a date",
     packages |-> <<"a", "b">>, recommended |-> "a"]

\* The record an earlier run has left for the packages installed.
RecordOf(groups) ==
    cacheGroups(Absent, <<"moment", "dayjs", "a", "b">>, groups, NoTTL, 0)

InitFunctional ==
    /\ InitClock /\ InitClient /\ InitNoBatch /\ InitNoAnalyze
    /\ cacheFile \in {Absent, RecordOf(<<GroupB>>), RecordOf(<<GroupOfDates>>)}
    /\ got = Absent
    /\ lastPut = Absent
    /\ lastClear = "none"

NextFunctional ==
    \/ /\ anPc = "idle"
       /\ \E pkgs \in FunctionalInventories, useDynamic \in BOOLEAN :
             AnalyzeCall(pkgs, [i \in 1..Len(pkgs) |-> "ok"],
                         [NoOptions EXCEPT !.useDynamic = useDynamic,
                                           !.useCache = useDynamic])
    \/ AnalyzeGroups
    \/ GenReturn
    \/ AnalyzeLoop

SpecFunctional == InitFunctional /\ [][NextFunctional]_vars

(***************************************************************************)
(* SpecSimilarity: one calculateSimilarity call on the metadata of two     *)
(* installed packages, or one generateGroups or                            *)
(* getAllFunctionalDuplicateGroups call without registry lookups on an     *)
(* inventory of at most MaxSimilar installed packages whose package.json   *)
(* files hold descriptions and keywords.                                   *)
(***************************************************************************)
SimilarInstalled ==
    { [name |-> "a", version |-> "1.0.0", path |-> "/a", size |-> 3],
      [name |-> "b", version |-> "1.0.0", path |-> "/b", size |-> 3],
      [name |-> "moment", version |-> "2.0.0", path |-> "/moment", size |-> 2],
      [name |-> "dayjs", version |-> "1.0.0", path |-> "/dayjs", size |-> 1],
      [name |-> "A", version |-> "1.1.0", path |-> "/A", size |-> 0],
      [name |-> "B", version |-> "1.1.0", path |-> "/B", size |-> 1],
      [name |-> "dayjs", version |-> "1.1.0", path |-> "/x/dayjs", size |-> 1],
      [name |-> "moment", version |-> "1.0.0", path |-> "/x/moment", size |-> 4],
      [name |-> "a", version |-> "0.1.0", path |-> "/x/a", size |-> 1] }

\* The package.json at each of these paths.
ManifestAt(path) ==
    CASE path = "/a" -> "date fmt utc"
      [] path = "/b" -> "date fmt utc, three keywords"
      [] path = "/moment" -> "date fmt utc iso, three keywords"
      [] path = "/dayjs" -> "three keywords"
      [] path = "/A" -> "blank, ten keywords"
      [] path = "/B" -> "Date fmt utc"
      [] path = "/x/dayjs" -> "date"
      [] path = "/x/moment" -> "date-fmt"
      [] path = "/x/a" -> "empty"

\* The scanner's inventories of the packages outside /x.
SimilarInventories ==
    LET scanned == {p \in SimilarInstalled : p.path \notin {"/x/dayjs", "/x/moment"}} IN
    {inv \in UNION {[1..n -> scanned] : n \in 0..MaxSimilar} :
        \A i, j \in 1..Len(inv) : inv[i].path = inv[j].path => i = j}

ManifestsAt(pkgs) == [i \in 1..Len(pkgs) |-> ManifestAt(pkgs[i].path)]

\* Dynamic groups an earlier run has cached: the first lists a package of
\* the static catalog, the third a package of the second.
GroupOfMoment ==
    [category |-> "Date Libraries", description |-> Undefined,
     packages |-> <<"a", "Moment">>, recommended |-> "a"]
GroupOfB ==
    [category |-> "Utc Libraries", description |-> Undefined,
     packages |-> <<"B", "c">>, recommended |-> "c"]

\* calculateSimilarity(pkg1, pkg2) is called and returns.
SimilarityCall(pkg1, pkg2) ==
    /\ anPc = "idle"
    /\ anPc' = "done"
    /\ result' = [tag |-> "similarity", pkg1 |-> pkg1, pkg2 |-> pkg2,
                  similarity |-> calculateSimilarity(pkg1, pkg2)]
    /\ UNCHANGED <<packages, manifests, options, analyzeMetadata, allMetadata, genCaller,
                   loopK, detectedDuplicates, fetchLog>>
    /\ UNCHANGED <<clockVars, clientVars, batchVars, groupCacheVars>>

\* getAllFunctionalDuplicateGroups(pkgs, useDynamic, false, useCache) is
\* called, with mfs what the packages' package.json files hold.
GetAllCall(pkgs, mfs, useDynamic, useCache) ==
    /\ anPc = "idle"
    /\ packages' = pkgs
    /\ manifests' = mfs
    /\ options' = [NoOptions EXCEPT !.useDynamic = useDynamic, !.useCache = useCache]
    /\ anPc' = "getAll.start"
    /\ UNCHANGED <<analyzeMetadata, allMetadata, genCaller, loopK, detectedDuplicates,
                   result, fetchLog>>
    /\ UNCHANGED <<clockVars, clientVars, batchVars, groupCacheVars>>

\* The body of that call up to its await or its return (duplicate-groups
\* lines 126-144).
GetAllStart ==
    /\ anPc = "getAll.start"
    /\ IF options.useDynamic
       THEN GetAllGroups("getAll")
       ELSE /\ ReturnAllGroups("getAll", FUNCTIONAL_DUPLICATE_GROUPS)
            /\ UNCHANGED <<genCaller, allMetadata, clientVars, batchVars>>
    /\ UNCHANGED <<packages, manifests, options, analyzeMetadata, fetchLog>>
    /\ UNCHANGED <<clockVars, groupCacheVars>>

InitSimilarity ==
    /\ InitClock /\ InitClient /\ InitNoBatch /\ InitNoAnalyze
    /\ cacheFile \in {Absent, RecordOf(<<GroupOfMoment, GroupB, GroupOfB>>)}
    /\ got = Absent
    /\ lastPut = Absent
    /\ lastClear = "none"

NextSimilarity ==
    \/ /\ anPc = "idle"
       /\ \E p1, p2 \in SimilarInstalled :
             SimilarityCall(extractMetadata(p1.name, ManifestAt(p1.path)),
                            extractMetadata(p2.name, ManifestAt(p2.path)))
    \/ /\ anPc = "idle"
       /\ \E pkgs \in SimilarInventories : GenerateCall(pkgs, ManifestsAt(pkgs), FALSE, FALSE)
    \/ /\ anPc = "idle"
       /\ \E pkgs \in SimilarInventories, useDynamic, useCache \in BOOLEAN :
             GetAllCall(pkgs, ManifestsAt(pkgs), useDynamic, useCache)
    \/ GenerateStart
    \/ GetAllStart
    \/ GenReturn

SpecSimilarity == InitSimilarity /\ [][NextSimilarity]_vars

(***************************************************************************)
(* Claims on analyze and generateGroups                                    *)
(***************************************************************************)
\* Every manifest read and every registry fetch of the call failed.
TotalFailure ==
    /\ \A i \in 1..Len(manifests) : manifests[i] \in ManifestFaults
    /\ ~fetchLog.resolved

\* C6, the states: the call has not raised, and what it returned is a result.
C6_NeverRaises ==
    /\ anPc # "raised"
    /\ result # Throw
    /\ anPc = "done" => result.tag \in {"result", "groups"}

\* C6: no metadata failure is fatal: whatever the inventory and the options,
\* and although every manifest read and every registry fetch fails, analyze
\* and generateGroups never raise and return a result in the end.
C6_FailureNotFatal ==
    /\ [](C6_NeverRaises)
    /\ (anPc # "idle") ~> (anPc = "done")

\* analyze with registry lookups and dynamic grouping has returned after
\* every manifest read and every registry fetch of it failed.
C6_Witness ==
    /\ anPc = "done"
    /\ result.tag = "result"
    /\ Len(packages) = 2
    /\ options.useDynamic /\ options.useNpmRegistry
    /\ fetchLog.made
    /\ cacheFile = Absent
    /\ TotalFailure

(***************************************************************************)
(* DuplicateDetector (analyzer/duplicates.ts) and the semver calls it      *)
(* makes                                                                   *)
(*                                                                         *)
(* A PackageInfo is its name, version, path and size; a size of 0 stands   *)
(* also for a size left out (`pkg.size || 0`). The version strings are     *)
(* plain MAJOR.MINOR.PATCH ones, without prerelease or build parts, and    *)
(* one string that is no version.                                          *)
(***************************************************************************)
\* semver.parse on the version strings of the model: null for a string that
\* is not a version.
semverParse(v) ==
    CASE v = "1.0.0" -> [tag |-> "semver", major |-> 1, minor |-> 0, patch |-> 0]
      [] v = "1.1.0" -> [tag |-> "semver", major |-> 1, minor |-> 1, patch |-> 0]
      [] v = "2.0.0" -> [tag |-> "semver", major |-> 2, minor |-> 0, patch |-> 0]
      [] v = "0.1.0" -> [tag |-> "semver", major |-> 0, minor |-> 1, patch |-> 0]
      [] v = "0.1.1" -> [tag |-> "semver", major |-> 0, minor |-> 1, patch |-> 1]
      [] v = "0.2.0" -> [tag |-> "semver", major |-> 0, minor |-> 2, patch |-> 0]
      [] OTHER -> Null

\* semver.valid(v), as a condition.
semverValid(v) == semverParse(v) # Null

\* semver.compare(a, b) on valid versions: -1, 0 or 1.
semverCompare(a, b) ==
    LET x == semverParse(a)
        y == semverParse(b)
    IN IF x.major # y.major THEN (IF x.major > y.major THEN 1 ELSE -1)
       ELSE IF x.minor # y.minor THEN (IF x.minor > y.minor THEN 1 ELSE -1)
       ELSE IF x.patch # y.patch THEN (IF x.patch > y.patch THEN 1 ELSE -1)
       ELSE 0

\* semver.satisfies(version, `^${v}`) on valid versions: at least v, and
\* below the next value of v's leftmost part that is not zero.
semverSatisfiesCaret(version, v) ==
    LET x == semverParse(version)
        y == semverParse(v)
    IN /\ semverCompare(version, v) >= 0
       /\ IF y.major > 0 THEN x.major = y.major
          ELSE IF y.minor > 0 THEN x.major = 0 /\ x.minor = y.minor
          ELSE x.major = 0 /\ x.minor = 0 /\ x.patch = y.patch

\* groupPackagesByName (lines 55-66): the names in the order of the Map, and
\* the array of a name.
PackageMapKeys(pkgs) == Distinct([i \in 1..Len(pkgs) |-> pkgs[i].name])

\* Mutant: names that differ in case only share an array.
PackageMapEntryIgnoringCase(pkgs, name) ==
    LET Named(pkg) == toLowerCase(pkg.name) = toLowerCase(name) IN SelectSeq(pkgs, Named)

PackageMapEntry(pkgs, name) ==
    LET Named(pkg) == pkg.name = name IN SelectSeq(pkgs, Named)

\* Mutant: a VersionInfo has the size of the last package of its version.
VersionInfosOfLast(pkgs) ==
    LET keys == Distinct([i \in 1..Len(pkgs) |-> pkgs[i].version]) IN
    [k \in 1..Len(keys) |->
        LET Same(pkg) == pkg.version = keys[k]
            same == SelectSeq(pkgs, Same)
        IN [version |-> keys[k],
            paths |-> [i \in 1..Len(same) |-> same[i].path],
            size |-> same[Len(same)].size,
            count |-> Len(same)]]

\* versionMap of analyzeDuplicatePackage (lines 69-83) as the array of its
\* values: one VersionInfo for each version string, with the size of the
\* first package of that version.
VersionInfos(pkgs) ==
    LET keys == Distinct([i \in 1..Len(pkgs) |-> pkgs[i].version]) IN
    [k \in 1..Len(keys) |->
        LET Same(pkg) == pkg.version = keys[k]
            same == SelectSeq(pkgs, Same)
        IN [version |-> keys[k],
            paths |-> [i \in 1..Len(same) |-> same[i].path],
            size |-> same[1].size,
            count |-> Len(same)]]

\* Mutant: the operands of the subtraction are swapped.
calculateWastedSpaceSwapped(versions) ==
    IF Len(versions) <= 1 THEN 0
    ELSE LET sizes == [i \in 1..Len(versions) |-> versions[i].size]
         IN MaxSeq(sizes) - SumSeq(sizes)

\* calculateWastedSpace (lines 102-110).
calculateWastedSpace(versions) ==
    IF Len(versions) <= 1 THEN 0
    ELSE LET sizes == [i \in 1..Len(versions) |-> versions[i].size]
         IN SumSeq(sizes) - MaxSeq(sizes)

\* versions.filter(v => semver.valid(v)).sort((a, b) => semver.compare(b, a))
\* (lines 117-119, 134-137).
SortedVersions(versions) ==
    LET valid == SelectSeq(versions, semverValid)
        pos(i) == 1 + Cardinality({j \in 1..Len(valid) :
                         \/ semverCompare(valid[i], valid[j]) < 0
                         \/ (semverCompare(valid[i], valid[j]) = 0 /\ j < i)})
    IN [k \in 1..Len(valid) |-> valid[CHOOSE i \in 1..Len(valid) : pos(i) = k]]

\* canConsolidateVersions (lines 112-131).
canConsolidateVersions(versions) ==
    LET sortedVersions == SortedVersions(versions) IN
    IF Len(versions) <= 1 THEN FALSE
    ELSE IF Len(sortedVersions) = 0 THEN FALSE
    ELSE \A i \in 1..Len(sortedVersions) :
             semverSatisfiesCaret(sortedVersions[1], sortedVersions[i])

\* Mutant: the version found first is recommended.
getRecommendedVersionFirst(versions) == versions[1].version

\* getRecommendedVersion (lines 133-140).
getRecommendedVersion(versions) ==
    LET validVersions == SortedVersions([i \in 1..Len(versions) |-> versions[i].version])
    IN IF Len(validVersions) > 0 THEN validVersions[1] ELSE versions[1].version

\* analyzeDuplicatePackage (lines 68-100).
analyzeDuplicatePackage(name, pkgs) ==
    LET versions == VersionInfos(pkgs)
        canConsolidate ==
            canConsolidateVersions([i \in 1..Len(versions) |-> versions[i].version])
    IN [name |-> name,
        versions |-> versions,
        totalInstances |-> Len(pkgs),
        wastedSpace |-> calculateWastedSpace(versions),
        canConsolidate |-> canConsolidate,
        recommendedVersion |-> IF canConsolidate THEN getRecommendedVersion(versions)
                               ELSE Undefined]

\* The loop of analyze (lines 34-43): the duplicates in the order pushed.
PushedDuplicates(pkgs) ==
    LET keys == PackageMapKeys(pkgs)
        More(name) == Len(PackageMapEntry(pkgs, name)) > 1
        names == SelectSeq(keys, More)
    IN [k \in 1..Len(names) |->
           analyzeDuplicatePackage(names[k], PackageMapEntry(pkgs, names[k]))]

\* duplicates.sort((a, b) => b.wastedSpace - a.wastedSpace) (line 45).
SortByWastedSpace(duplicates) ==
    SortDescending(duplicates, [i \in 1..Len(duplicates) |-> duplicates[i].wastedSpace])

\* DuplicateDetector.analyze (lines 28-53).
analyze(pkgs) ==
    LET pushed == PushedDuplicates(pkgs)
        Consolidates(d) == d.canConsolidate
    IN [tag |-> "analysis",
        duplicates |-> SortByWastedSpace(pushed),
        totalDuplicates |-> Len(pushed),
        totalWastedSpace |-> SumSeq([i \in 1..Len(pushed) |-> pushed[i].wastedSpace]),
        consolidationOpportunities |-> Len(SelectSeq(pushed, Consolidates))]

\* Mutant: a single record of the name is reported.
findDuplicatesByNameOfOne(pkgs, packageName) ==
    LET filtered == PackageMapEntry(pkgs, packageName) IN
    IF Len(filtered) < 1 THEN Null
    ELSE analyzeDuplicatePackage(packageName, filtered)

\* findDuplicatesByName (lines 142-150).
findDuplicatesByName(pkgs, packageName) ==
    LET filtered == PackageMapEntry(pkgs, packageName) IN
    IF Len(filtered) <= 1 THEN Null
    ELSE analyzeDuplicatePackage(packageName, filtered)

\* detector.analyze(pkgs) is called and returns.
DuplicatesAnalyze(pkgs) ==
    /\ anPc = "idle"
    /\ packages' = pkgs
    /\ result' = analyze(pkgs)
    /\ anPc' = "done"
    /\ UNCHANGED <<manifests, options, analyzeMetadata, allMetadata, genCaller, loopK,
                   detectedDuplicates, fetchLog>>
    /\ UNCHANGED <<clockVars, clientVars, batchVars, groupCacheVars>>

\* detector.findDuplicatesByName(pkgs, packageName) is called and returns.
FindDuplicatesByName(pkgs, packageName) ==
    /\ anPc = "idle"
    /\ packages' = pkgs
    /\ result' = [tag |-> "found", name |-> packageName,
                  value |-> findDuplicatesByName(pkgs, packageName)]
    /\ anPc' = "done"
    /\ UNCHANGED <<manifests, options, analyzeMetadata, allMetadata, genCaller, loopK,
                   detectedDuplicates, fetchLog>>
    /\ UNCHANGED <<clockVars, clientVars, batchVars, groupCacheVars>>

(***************************************************************************)
(* SpecDuplicates: one analyze or findDuplicatesByName call on an          *)
(* inventory of at most MaxInventory installed packages.                   *)
(***************************************************************************)
Installed ==
    { [name |-> "a", version |-> "1.0.0", path |-> "/p1", size |-> 2],
      [name |-> "a", version |-> "1.1.0", path |-> "/p2", size |-> 3],
      [name |-> "a", version |-> "1.0.0", path |-> "/p3", size |-> 5],
      [name |-> "a", version |-> "2.0.0", path |-> "/p4", size |-> 1],
      [name |-> "a", version |-> "latest", path |-> "/p5", size |-> 0],
      [name |-> "A", version |-> "0.1.0", path |-> "/p6", size |-> 1],
      [name |-> "A", version |-> "0.2.0", path |-> "/p7", size |-> 2] }

\* The scanner's inventories: each path is scanned once.
InstalledInventories ==
    {inv \in UNION {[1..n -> Installed] : n \in 0..MaxInventory} :
        \A i, j \in 1..Len(inv) : inv[i].path = inv[j].path => i = j}

InitDuplicates == InitClock /\ InitClient /\ InitNoBatch /\ InitNoGroupCache /\ InitNoAnalyze

NextDuplicates ==
    \/ /\ anPc = "idle"
       /\ \E pkgs \in InstalledInventories : DuplicatesAnalyze(pkgs)
    \/ /\ anPc = "idle"
       /\ \E pkgs \in InstalledInventories, n \in {"a", "A", "b"} :
             FindDuplicatesByName(pkgs, n)

SpecDuplicates == InitDuplicates /\ [][NextDuplicates]_vars

(***************************************************************************)
(* Claims on DuplicateDetector                                             *)
(***************************************************************************)
\* The version-duplicate groups the call has reported.
Reported ==
    IF anPc # "done" THEN {}
    ELSE IF result.tag = "analysis" THEN Range(result.duplicates)
    ELSE IF result.tag = "found" /\ result.value # Null THEN {result.value}
    ELSE {}

\* The version strings of a group that are valid semver, and the highest of
\* them.
ValidVersions(d) ==
    {d.versions[i].version : i \in 1..Len(d.versions)} \cap
        {"0.1.0", "0.1.1", "0.2.0", "1.0.0", "1.1.0", "2.0.0"}

HighestValid(d) ==
    CHOOSE h \in ValidVersions(d) : \A v \in ValidVersions(d) : semverCompare(h, v) >= 0

\* C12: for every reported version-duplicate group, canConsolidate is false
\* whenever fewer than 2 of its version strings are valid semver, and
\* otherwise it is true exactly when every valid version v accepts the
\* highest valid version under the caret range ^v.
C12_ConsolidationFeasibility ==
    \A d \in Reported :
        IF Cardinality(ValidVersions(d)) < 2
        THEN ~d.canConsolidate
        ELSE d.canConsolidate <=>
                \A v \in ValidVersions(d) : semverSatisfiesCaret(HighestValid(d), v)

\* C13: for every reported version-duplicate group, recommendedVersion is
\* present exactly when canConsolidate is true, and it is then the highest
\* valid semver version among the group's versions.
C13_RecommendedVersion ==
    \A d \in Reported :
        /\ (d.recommendedVersion # Undefined) <=> d.canConsolidate
        /\ d.canConsolidate =>
              /\ ValidVersions(d) # {}
              /\ d.recommendedVersion = HighestValid(d)

\* A group of two valid versions is reported as one that can be
\* consolidated, and the version recommended is not the one found first.
C13_Witness ==
    \E d \in Reported :
        /\ d.canConsolidate
        /\ Cardinality(ValidVersions(d)) >= 2
        /\ d.recommendedVersion = HighestValid(d)
        /\ d.recommendedVersion # d.versions[1].version

\* The version strings of the inventory's records of a name.
VersionsInstalled(name) ==
    {packages[i].version : i \in {k \in 1..Len(packages) : packages[k].name = name}}

\* C14: sizes being non-negative, the wastedSpace of every reported group is
\* at least 0, and it is 0 when all records of that name have the same
\* version string.
C14_WastedSpaceNonNegative ==
    \A d \in Reported :
        /\ d.wastedSpace >= 0
        /\ Cardinality(VersionsInstalled(d.name)) = 1 => d.wastedSpace = 0

\* A group whose records all have one version, at two paths and of two
\* sizes, is reported with no wasted space, and a group of several versions
\* with some.
C14_Witness ==
    /\ \E d \in Reported :
          /\ Cardinality(VersionsInstalled(d.name)) = 1
          /\ Len(d.versions[1].paths) >= 2
          /\ d.versions[1].paths[1] # d.versions[1].paths[2]
          /\ d.wastedSpace = 0
    /\ \E d \in Reported : d.wastedSpace > 0

\* The sizes of the inventory's records of a name, one for each installed
\* instance.
InstanceSizes(name) ==
    LET instances == PackageMapEntry(packages, name)
    IN [i \in 1..Len(instances) |-> instances[i].size]

\* C15: the wastedSpace of a reported group is the sum of the sizes of all
\* its installed instances minus the size of its largest member, also when
\* the same version is installed at several paths.
C15_WastedSpaceOfInstances ==
    \A d \in Reported :
        d.wastedSpace = SumSeq(InstanceSizes(d.name)) - MaxSeq(InstanceSizes(d.name))

\* The number of the inventory's records of exactly that name.
Instances(name) == Cardinality({i \in 1..Len(packages) : packages[i].name = name})

\* C16: analyze reports a name, once, exactly when at least 2 records of the
\* inventory have exactly that name, and its aggregates are those of the
\* report: totalDuplicates the number of groups, totalWastedSpace the sum of
\* their wastedSpace, consolidationOpportunities the number of groups with
\* canConsolidate.
C16_ReportedNames ==
    (anPc = "done" /\ result.tag = "analysis") =>
        LET duplicates == result.duplicates IN
        /\ {duplicates[i].name : i \in 1..Len(duplicates)}
              = {n \in Names : Instances(n) >= 2}
        /\ \A i, j \in 1..Len(duplicates) : duplicates[i].name = duplicates[j].name => i = j
        /\ result.totalDuplicates = Len(duplicates)
        /\ result.totalWastedSpace
              = SumSeq([i \in 1..Len(duplicates) |-> duplicates[i].wastedSpace])
        /\ result.consolidationOpportunities
              = Cardinality({i \in 1..Len(duplicates) : duplicates[i].canConsolidate})

\* analyze has reported "a", installed twice at two versions of one major,
\* and not "A", installed once: one group, which can be consolidated.
C16_Witness ==
    /\ anPc = "done"
    /\ result.tag = "analysis"
    /\ Instances("a") = 2
    /\ Instances("A") = 1
    /\ result.totalDuplicates = 1
    /\ result.duplicates[1].name = "a"
    /\ result.totalWastedSpace > 0
    /\ result.consolidationOpportunities = 1

\* C18: findDuplicatesByName(inventory, n) returns null when fewer than 2
\* records are named n, and otherwise exactly the entry that analyze reports
\* for n on the same inventory.
C18_FindMatchesAnalyze ==
    (anPc = "done" /\ result.tag = "found") =>
        IF Instances(result.name) < 2
        THEN result.value = Null
        ELSE LET duplicates == analyze(packages).duplicates IN
             /\ result.value # Null
             /\ result.value.name = result.name
             /\ \E i \in 1..Len(duplicates) : duplicates[i] = result.value

\* findDuplicatesByName has returned the entry of "A", installed at two
\* versions in an inventory that holds "a" as well, and analyze reports the
\* same entry.
C18_Witness ==
    /\ anPc = "done"
    /\ result.tag = "found"
    /\ result.name = "A"
    /\ Instances("A") = 2
    /\ Instances("a") >= 1
    /\ result.value # Null
    /\ Len(result.value.versions) = 2
    /\ \E i \in 1..Len(analyze(packages).duplicates) :
          analyze(packages).duplicates[i] = result.value

(***************************************************************************)
(* SpecReports: either detector is called.                                 *)
(***************************************************************************)
InitReports == InitFunctional

NextReports == NextDuplicates \/ NextFunctional

SpecReports == InitReports /\ [][NextReports]_vars

\* Where the inventory has a name first: the order in which analyze
\* discovers the names.
FirstIndex(name) ==
    CHOOSE i \in 1..Len(packages) :
        /\ packages[i].name = name
        /\ \A j \in 1..(i - 1) : packages[j].name # name

\* Where the loop of FunctionalDuplicateDetector.analyze pushed a report.
PushedAt(report) ==
    CHOOSE i \in 1..Len(detectedDuplicates) : detectedDuplicates[i] = report

\* C17, version duplicates: by wastedSpace descending, groups of equal
\* wastedSpace in the order their names were discovered.
C17_VersionOrder ==
    (anPc = "done" /\ result.tag = "analysis") =>
        \A i, j \in 1..Len(result.duplicates) :
            i < j =>
               LET a == result.duplicates[i]
                   b == result.duplicates[j]
               IN /\ a.wastedSpace >= b.wastedSpace
                  /\ a.wastedSpace = b.wastedSpace => FirstIndex(a.name) < FirstIndex(b.name)

\* C17, functional duplicates: the reports pushed, by totalSize descending,
\* reports of equal totalSize in the order they were pushed.
C17_FunctionalOrder ==
    (anPc = "done" /\ result.tag = "result") =>
        /\ Range(result.duplicates) = Range(detectedDuplicates)
        /\ Len(result.duplicates) = Len(detectedDuplicates)
        /\ \A i, j \in 1..Len(result.duplicates) :
              i < j =>
                 LET a == result.duplicates[i]
                     b == result.duplicates[j]
                 IN /\ a.totalSize >= b.totalSize
                    /\ a.totalSize = b.totalSize => PushedAt(a) < PushedAt(b)

\* C17: both report lists are sorted, the version duplicates by wastedSpace
\* descending and the functional duplicates by totalSize descending, and
\* entries of equal keys keep their discovery order.
C17_SortedReports == C17_VersionOrder /\ C17_FunctionalOrder

\* analyze has returned two functional reports of one totalSize above 0, in
\* the order they were pushed.
C17_Witness ==
    /\ anPc = "done"
    /\ result.tag = "result"
    /\ Len(result.duplicates) = 2
    /\ result.duplicates[1].totalSize = result.duplicates[2].totalSize
    /\ result.duplicates[1].totalSize > 0
    /\ result.duplicates = detectedDuplicates

(***************************************************************************)
(* Claims on the functional-duplicate reports                              *)
(***************************************************************************)
\* The combined list of the call: the static catalog, and with dynamic
\* grouping the cached dynamic groups that the merge accepts.
CombinedGroups ==
    IF options.useDynamic /\ Len(packages) > 0
    THEN MergeGroups(FUNCTIONAL_DUPLICATE_GROUPS, CachedDynamicGroups)
    ELSE FUNCTIONAL_DUPLICATE_GROUPS

\* The lowercase names a group lists that are installed.
InstalledMembers(group) ==
    {toLowerCase(group.packages[i]) : i \in 1..Len(group.packages)}
        \cap {toLowerCase(packages[k].name) : k \in 1..Len(packages)}

\* The lowercase names of a report's found packages.
FoundNames(report) ==
    {toLowerCase(report.foundPackages[i].name) : i \in 1..Len(report.foundPackages)}

\* The report is one of the group.
ReportOf(report, group) ==
    /\ report.category = group.category
    /\ FoundNames(report) = InstalledMembers(group)
    /\ report.recommended = group.recommended

\* C19: every functional-duplicate report has at least 2 found packages, of
\* distinct names, each a package of the inventory; they are the installed
\* members of a group of the combined list, the absent ones skipped; and a
\* group with fewer than 2 installed members has no report, also when its
\* one member is installed at several versions or paths.
C19_TwoInstalledMembers ==
    (anPc = "done" /\ result.tag = "result") =>
        /\ \A r \in Range(result.duplicates) :
              /\ Len(r.foundPackages) >= 2
              /\ \A i, j \in 1..Len(r.foundPackages) :
                    r.foundPackages[i].name = r.foundPackages[j].name => i = j
              /\ \A i \in 1..Len(r.foundPackages) :
                    \E k \in 1..Len(packages) :
                        /\ packages[k].name = r.foundPackages[i].name
                        /\ packages[k].path = r.foundPackages[i].path
              /\ \E g \in Range(CombinedGroups) : ReportOf(r, g)
        /\ \A g \in Range(CombinedGroups) :
              Cardinality(InstalledMembers(g)) < 2 =>
                 \A r \in Range(result.duplicates) : ~ReportOf(r, g)

\* moment is installed at two paths and no other package of its group is:
\* the group is not reported; the cached group of a and b, both installed,
\* is.
C19_Witness ==
    /\ anPc = "done"
    /\ result.tag = "result"
    /\ Cardinality({k \in 1..Len(packages) : packages[k].name = "moment"}) = 2
    /\ InstalledMembers(FUNCTIONAL_DUPLICATE_GROUPS[1]) = {"moment"}
    /\ Len(result.duplicates) = 1
    /\ ReportOf(result.duplicates[1], GroupB)
    /\ Len(result.duplicates[1].foundPackages) = 2

\* C20: every group of the combined list with at least 2 installed members
\* yields exactly one report, whose found packages are the installed members
\* of the group and whose recommended package is the group's.
C20_EveryGroupReported ==
    (anPc = "done" /\ result.tag = "result") =>
        \A g \in Range(CombinedGroups) :
            Cardinality(InstalledMembers(g)) >= 2 =>
                Cardinality({k \in 1..Len(result.duplicates) :
                                ReportOf(result.duplicates[k], g)}) = 1

(***************************************************************************)
(* Further claims on DuplicateDetector                                     *)
(***************************************************************************)
\* The inventory's records of a name and a version, in inventory order.
RecordsOf(name, version) ==
    LET Is(pkg) == pkg.name = name /\ pkg.version = version IN SelectSeq(packages, Is)

\* C27: the versions of a reported group have one entry for each distinct
\* version string of the name's records; an entry's count is the number of
\* records of that version and the length of its paths, its size is the size
\* of the first record of that version, and totalInstances is the number of
\* records of the name and the sum of the counts.
C27_VersionEntries ==
    \A d \in Reported :
        /\ {d.versions[i].version : i \in 1..Len(d.versions)} = VersionsInstalled(d.name)
        /\ \A i, j \in 1..Len(d.versions) :
              d.versions[i].version = d.versions[j].version => i = j
        /\ \A i \in 1..Len(d.versions) :
              LET v == d.versions[i]
                  records == RecordsOf(d.name, v.version)
              IN /\ v.count = Len(records)
                 /\ v.count = Len(v.paths)
                 /\ v.paths = [k \in 1..Len(records) |-> records[k].path]
                 /\ v.size = records[1].size
        /\ d.totalInstances = Instances(d.name)
        /\ d.totalInstances = SumSeq([i \in 1..Len(d.versions) |-> d.versions[i].count])

\* A group is reported with a version installed at two paths, of sizes 2
\* and 5 or 5 and 2, and another version.
C27_Witness ==
    \E d \in Reported :
        /\ Len(d.versions) = 2
        /\ d.totalInstances = 3
        /\ \E i \in 1..2 :
              /\ d.versions[i].count = 2
              /\ d.versions[i].paths[1] # d.versions[i].paths[2]
              /\ RecordsOf(d.name, d.versions[i].version)[1].size
                    # RecordsOf(d.name, d.versions[i].version)[2].size

(***************************************************************************)
(* Further claims on the functional-duplicate reports                      *)
(***************************************************************************)
\* The sizes of a report's found packages.
FoundSizes(report) ==
    {report.foundPackages[i].size : i \in 1..Len(report.foundPackages)}

\* C21, as amended: the potential savings of every emitted group are at
\* most the group's total size; when all n found members have one size s
\* they are (n - 1) * s, which is 0 only for s = 0; and
\* totalPotentialSavings is the sum of the groups' savings.
C21_Savings ==
    (anPc = "done" /\ result.tag = "result") =>
        /\ \A r \in Range(result.duplicates) :
              /\ calculatePotentialSavings(r) >= 0
              /\ calculatePotentialSavings(r) <= r.totalSize
              /\ \A size \in FoundSizes(r) :
                    FoundSizes(r) = {size} =>
                        calculatePotentialSavings(r) = (Len(r.foundPackages) - 1) * size
        /\ result.totalPotentialSavings
              = SumSeq([k \in 1..Len(result.duplicates) |->
                           calculatePotentialSavings(result.duplicates[k])])

\* C21, as stated: the potential savings of every emitted group are at most
\* the group's total size and 0 when all found members have the same size,
\* and totalPotentialSavings is the sum of the groups' savings.
C21_SavingsAsStated ==
    (anPc = "done" /\ result.tag = "result") =>
        /\ \A r \in Range(result.duplicates) :
              /\ calculatePotentialSavings(r) <= r.totalSize
              /\ Cardinality(FoundSizes(r)) = 1 => calculatePotentialSavings(r) = 0
        /\ result.totalPotentialSavings
              = SumSeq([k \in 1..Len(result.duplicates) |->
                           calculatePotentialSavings(result.duplicates[k])])

\* Two groups are reported, one of two packages of size 3 each, whose
\* savings are 3, and the total savings are those of both.
C21_Witness ==
    /\ anPc = "done"
    /\ result.tag = "result"
    /\ Len(result.duplicates) = 2
    /\ \E r \in Range(result.duplicates) :
          /\ FoundSizes(r) = {3}
          /\ calculatePotentialSavings(r) = 3
    /\ \E r \in Range(result.duplicates) :
          /\ Cardinality(FoundSizes(r)) = 2
          /\ calculatePotentialSavings(r) > 0
    /\ result.totalPotentialSavings > 3

\* The first record of the inventory with that lowercase name.
FirstSeen(key) ==
    packages[CHOOSE i \in 1..Len(packages) :
                /\ toLowerCase(packages[i].name) = key
                /\ \A j \in 1..(i - 1) : toLowerCase(packages[j].name) # key]

\* C24: the lookup has lowercase keys and keeps, of several records with
\* one lowercase name, the one seen first: the version, size and path of a
\* found package are those of the first record of that name in the
\* inventory.
C24_FirstSeenWins ==
    (anPc = "done" /\ result.tag = "result") =>
        \A r \in Range(result.duplicates) :
            \A i \in 1..Len(r.foundPackages) :
                LET found == r.foundPackages[i]
                    first == FirstSeen(toLowerCase(found.name))
                IN /\ found.version = first.version
                   /\ found.size = first.size
                   /\ found.path = first.path

(***************************************************************************)
(* Claims on calculateSimilarity                                           *)
(***************************************************************************)
\* A calculateSimilarity call has returned.
Compared == anPc = "done" /\ result.tag = "similarity"

\* C22: for any two metadata records, with or without descriptions and
\* keywords, the score of calculateSimilarity lies in [0, 1], and a record
\* compared with an identical record scores 1.
C22_ScoreRange ==
    Compared =>
        /\ AtLeast(result.similarity.score, Zero)
        /\ AtLeast(One, result.similarity.score)
        /\ result.pkg1 = result.pkg2 => result.similarity.score = One

\* A record with keywords and no description is compared with itself.
C22_Witness ==
    /\ Compared
    /\ result.pkg1 = result.pkg2
    /\ ~HasDescription(result.pkg1)
    /\ HasKeywords(result.pkg1)
    /\ result.similarity.score = One

\* C25: calculateSimilarity gives the reason "similar descriptions" whenever
\* both descriptions are present and their similarity is at least 0.5, and
\* the reason "shared keywords" whenever both records have a keyword and the
\* overlap of their keywords is at least 0.3, these two values included.
C25_ReasonTags ==
    Compared =>
        LET pkg1 == result.pkg1
            pkg2 == result.pkg2
            tags == {result.similarity.reasons[i] : i \in 1..Len(result.similarity.reasons)}
        IN /\ ( /\ HasDescription(pkg1) /\ HasDescription(pkg2)
                /\ AtLeast(calculateTextSimilarity(toLowerCaseText(pkg1.description),
                                                   toLowerCaseText(pkg2.description)),
                           Fraction(5, 10)) )
              => "similar descriptions" \in tags
           /\ ( /\ HasKeywords(pkg1) /\ HasKeywords(pkg2)
                /\ AtLeast(calculateKeywordOverlap(pkg1.keywords, pkg2.keywords),
                           Fraction(3, 10)) )
              => "shared keywords" \in tags

\* C29: calculateSimilarity(a, b) and calculateSimilarity(b, a) have the
\* same score and the same reasons, and package1 and package2 swapped: b
\* reaches the threshold against a exactly when a reaches it against b.
C29_Symmetric ==
    Compared =>
        LET forth == result.similarity
            back == calculateSimilarity(result.pkg2, result.pkg1)
        IN /\ back.score = forth.score
           /\ back.reasons = forth.reasons
           /\ back.package1 = forth.package2
           /\ back.package2 = forth.package1
           /\ AtLeast(back.score, similarityThreshold)
                 <=> AtLeast(forth.score, similarityThreshold)

\* Two records of different names, descriptions and keyword lists, one of
\* three keywords and one of ten, are compared.
C29_Witness ==
    /\ Compared
    /\ result.pkg1.name = "b"
    /\ result.pkg2.name = "A"
    /\ Len(result.pkg1.keywords) = 3
    /\ Len(result.pkg2.keywords) = 10
    /\ result.similarity.score = Fraction(3, 25)

(***************************************************************************)
(* Claims on findSimilarGroups                                             *)
(***************************************************************************)
\* C26: in one pass of findSimilarGroups a package is the seed of a group
\* only if its description is not empty and no group emitted before lists
\* it (whatever the case); every group emitted lists its seed first and then
\* at least one package, each scoring at least 0.7 against the seed; its
\* members are marked processed, so none of them is the seed of a later
\* group.
C26_Seeds ==
    (anPc = "done" /\ result.tag = "groups") =>
        \A k \in 1..Len(result.groups) :
            LET group == result.groups[k]
                seed == allMetadata[toLowerCase(group.packages[1])]
            IN /\ seed # Absent
               /\ seed.name = group.packages[1]
               /\ HasDescription(seed)
               /\ ~Blank(seed.description)
               /\ \A h \in 1..(k - 1) :
                     toLowerCase(seed.name) \notin LowerSet(result.groups[h].packages)
               /\ Len(group.packages) >= 2
               /\ \A j \in 2..Len(group.packages) :
                     LET member == allMetadata[toLowerCase(group.packages[j])] IN
                     /\ member # Absent
                     /\ AtLeast(calculateSimilarity(seed, member).score, Fraction(7, 10))

\* a, b and moment are installed: a's group lists b, b is no seed although
\* its description is that of a, and moment's group lists b again.
C26_Witness ==
    /\ anPc = "done"
    /\ result.tag = "groups"
    /\ Len(result.groups) = 2
    /\ result.groups[1].packages = <<"a", "b">>
    /\ result.groups[2].packages = <<"moment", "b">>

(***************************************************************************)
(* Claims on getAllFunctionalDuplicateGroups                               *)
(***************************************************************************)
\* A getAllFunctionalDuplicateGroups call has returned.
AllReturned == anPc = "done" /\ result.tag = "allGroups"

\* The dynamic groups of that call: those generateGroups returned when it
\* was called, and else those read from the cache.
GeneratedGroups ==
    findSimilarGroups(allMetadata, EntryKeys(packages, manifests, allMetadata))
DynamicGroupsMerged ==
    IF ~options.useDynamic \/ Len(packages) = 0 THEN <<>>
    ELSE IF GeneratedGroups # <<>> THEN GeneratedGroups
    ELSE CachedDynamicGroups

\* The groups of the list returned after the static catalog.
AcceptedGroups ==
    SubSeq(result.groups, Len(FUNCTIONAL_DUPLICATE_GROUPS) + 1, Len(result.groups))

\* A group lists a package of the static catalog, whatever the case.
ListsStatic(group) ==
    \E i \in 1..Len(FUNCTIONAL_DUPLICATE_GROUPS), j \in 1..Len(group.packages) :
        toLowerCase(group.packages[j]) \in LowerSet(FUNCTIONAL_DUPLICATE_GROUPS[i].packages)

\* C23: in the merge a dynamic group is discarded if one of its members
\* belongs to a group of the static catalog, whatever the case, whether the
\* dynamic groups were generated or read from the cache; the static groups
\* are kept unchanged and come first.
C23_StaticWins ==
    AllReturned =>
        /\ Len(result.groups) >= Len(FUNCTIONAL_DUPLICATE_GROUPS)
        /\ SubSeq(result.groups, 1, Len(FUNCTIONAL_DUPLICATE_GROUPS)) = FUNCTIONAL_DUPLICATE_GROUPS
        /\ \A group \in Range(AcceptedGroups) : group \in Range(DynamicGroupsMerged)
        /\ \A group \in Range(DynamicGroupsMerged) :
              ListsStatic(group) => group \notin Range(AcceptedGroups)

\* The groups of a and of moment are generated with nothing cached: the
\* group of moment is discarded and the group of a follows the catalog.
C23_Witness ==
    /\ AllReturned
    /\ GeneratedGroups # <<>>
    /\ Len(GeneratedGroups) = 2
    /\ GeneratedGroups[2].packages = <<"moment", "b">>
    /\ Len(AcceptedGroups) = 1
    /\ AcceptedGroups[1].packages = <<"a", "b">>

\* C30: in the list getAllFunctionalDuplicateGroups returns no package name,
\* whatever its case, belongs to a dynamic group and to another group of the
\* list.
C30_DynamicDisjoint ==
    AllReturned =>
        \A i \in (Len(FUNCTIONAL_DUPLICATE_GROUPS) + 1)..Len(result.groups) :
            \A j \in 1..Len(result.groups) :
                i # j => LowerSet(result.groups[i].packages)
                            \cap LowerSet(result.groups[j].packages) = {}

\* Three groups are read from the cache: the first lists Moment, the third
\* lists B and the second b; the second alone is accepted.
C30_Witness ==
    /\ AllReturned
    /\ GeneratedGroups = <<>>
    /\ Len(DynamicGroupsMerged) = 3
    /\ Len(AcceptedGroups) = 1
    /\ AcceptedGroups[1].packages = <<"b", "a">>

(***************************************************************************)
(* Claims on the termination of fetchPackageMetadata                       *)
(***************************************************************************)
\* C28: every request issued ending, every fetchPackageMetadata call
\* returns in the end, the calls queued behind a full set of slots
\* included, and so does every fetchPackageMetadataBatch call.
C28_EveryCallReturns ==
    /\ \A id \in SlotCalls : (pc[id] \notin {"idle", "done"}) ~> (pc[id] = "done")
    /\ (batchPc \in {"starting", "waiting"}) ~> (batchPc = "done")

\* A batch of more names than there are slots has returned: the calls after
\* the fifth were queued, and every call has returned.
C28_Witness ==
    /\ batchPc = "done"
    /\ Len(batchNames) > maxConcurrentRequests
    /\ \A id \in 1..Len(batchNames) : pc[id] = "done"
    /\ requestQueue = <<>>
    /\ activeRequests = 0
====
